---- MODULE Spec2Model ----
(***************************************************************************)
(* Privylease: the Cloudflare worker that proxies a private repository's   *)
(* GitHub releases behind a shared password, with KV-backed rate limiting  *)
(* of failed authentication attempts.                                      *)
(*                                                                         *)
(* The worker's fetch handler is modelled per request, one action per      *)
(* stretch of code between two awaits on shared state (the KV store, the   *)
(* upstream API).  Requests in flight are kept in a bag: two requests in   *)
(* the same local state are interchangeable.                               *)
(***************************************************************************)
EXTENDS Integers, Sequences, FiniteSets, Bags, TLC

(***************************************************************************)
(* Program constants (CONSTANTS object of the worker).                     *)
(***************************************************************************)
MAX_FAILED_ATTEMPTS == 5
BLOCK_DURATION_MINUTES == 15
RATE_LIMIT_TTL_SECONDS == 900
RELEASES_CACHE_CONTROL == "public, max-age=60"
GITHUB_API_BASE == "https://api.github.com"
GITHUB_API_VERSION == "application/vnd.github.v3+json"
USER_AGENT == "Cloudflare-Worker"
DOWNLOAD_URL_CACHE_CONTROL == "no-cache"

\* now + (CONSTANTS.BLOCK_DURATION_MINUTES * 60 * 1000): the block, in ms.
BlockMs == BLOCK_DURATION_MINUTES * 60 * 1000
\* expirationTtl, in the clock's unit (ms).
TtlMs == RATE_LIMIT_TTL_SECONDS * 1000

(***************************************************************************)
(* Bounds of the model.                                                    *)
(***************************************************************************)
\* Requests that may be in flight at once.
MaxInflight == 2
\* The clock runs over this many half block-windows.
MaxHalfWindows == 2

\* The instants the clock visits: every half block-window, and one
\* millisecond after it.
Instants == { k * (BlockMs \div 2) + o : k \in 0..MaxHalfWindows, o \in {0, 1} }

(***************************************************************************)
(* Values.                                                                 *)
(***************************************************************************)
\* What Headers.get returns for a header the request does not carry.
NULL == "<null>"

\* The X-Password header: absent, or a string (a sequence of char codes).
NoHeader == [present |-> FALSE]
Header(v) == [present |-> TRUE, value |-> v]

\* env.VIEWER_PASSWORD, as char codes.
ViewerPasswords == { <<1, 2>> }
\* The X-Password values a caller may send: none, the secret, a string of the
\* same length that differs in its last character.
PasswordHeaders == { NoHeader, Header(<<1, 2>>), Header(<<1, 3>>) }

\* The network-origin headers a request may carry.
IPHeaderCases ==
  { [cf |-> "10.0.0.1", xff |-> NULL, xreal |-> NULL],
    [cf |-> NULL, xff |-> "10.0.0.1", xreal |-> "10.0.0.2"],
    [cf |-> "", xff |-> "", xreal |-> "10.0.0.1"],
    [cf |-> NULL, xff |-> NULL, xreal |-> NULL] }

Methods == { "GET", "OPTIONS" }
\* url.pathname, cut into its slashes and the names between them.
Paths == { <<"/", "releases">>, <<"/", "releases", "/">>,
           <<"/", "download-url", "/", "123">>, <<"/", "download-url", "/">>,
           <<"/", "download-url">>, <<"/">> }

\* No pathname read yet (a pathname is never empty), and an undefined string.
NoPath == <<>>
Undefined == <<"<undefined>">>

\* The server's secrets and settings.
GitHubTokens == { "ghp_A", "ghp_B" }
RepoNames == { "owner/repo" }

\* A response body as text: JSON (compact or pretty-printed) for a value, or
\* something that is no JSON.
JSONText(value, pretty) == [valid |-> TRUE, pretty |-> pretty, value |-> value]
NotJSON == [valid |-> FALSE, pretty |-> FALSE, value |-> NULL]
\* response.json(): the value the text stands for; it throws on anything else.
json(text) == IF text.valid THEN [threw |-> FALSE, data |-> text.value] ELSE [threw |-> TRUE]

\* What the upstream API may answer: status, Location header and body; or the
\* call fails (fetch rejects).
Answer(status, location, body) ==
  [failed |-> FALSE, status |-> status, location |-> location, body |-> body]
FetchFailed == [failed |-> TRUE, status |-> 0, location |-> NULL, body |-> NotJSON]
ReleaseAnswers ==
  { Answer(200, NULL, JSONText([array |-> <<>>], FALSE)),
    Answer(200, NULL, JSONText([array |-> <<"v1.0">>], TRUE)),
    Answer(401, NULL, JSONText([message |-> "Bad credentials"], FALSE)),
    Answer(502, NULL, NotJSON),
    FetchFailed }
AssetAnswers ==
  { Answer(302, "https://cdn/asset?sig=1", NotJSON),
    Answer(404, NULL, JSONText([message |-> "Not Found"], FALSE)),
    Answer(200, NULL, NotJSON),
    FetchFailed }

(***************************************************************************)
(* getClientIP                                                             *)
(***************************************************************************)
\* JavaScript's a || b on header values: null and '' are falsy.
Falsy(v) == v = NULL \/ v = ""

\* Mutant: X-Forwarded-For is looked at first.
getClientIP_xffFirst(h) ==
  IF ~Falsy(h.xff) THEN h.xff
  ELSE IF ~Falsy(h.cf) THEN h.cf
  ELSE IF ~Falsy(h.xreal) THEN h.xreal
  ELSE "unknown"

getClientIP(h) ==
  IF ~Falsy(h.cf) THEN h.cf
  ELSE IF ~Falsy(h.xff) THEN h.xff
  ELSE IF ~Falsy(h.xreal) THEN h.xreal
  ELSE "unknown"

ClientIPs == { getClientIP(h) : h \in IPHeaderCases }
\* The header cases of one identity.
OneIdentity == { h \in IPHeaderCases : getClientIP(h) = "10.0.0.1" }

\* `ratelimit:${clientIP}`
\* Mutant: one record for everybody.
RateLimitKey_shared(clientIP) == <<"ratelimit:", "unknown">>

RateLimitKey(clientIP) == <<"ratelimit:", clientIP>>
RateLimitKeys == { RateLimitKey(ip) : ip \in ClientIPs }

(***************************************************************************)
(* timingSafeEquals                                                        *)
(***************************************************************************)
RECURSIVE BitXor(_, _)
BitXor(a, b) ==
  IF a = 0 /\ b = 0 THEN 0
  ELSE (((a % 2) + (b % 2)) % 2) + 2 * BitXor(a \div 2, b \div 2)

RECURSIVE BitOr(_, _)
BitOr(a, b) ==
  IF a = 0 /\ b = 0 THEN 0
  ELSE (IF a % 2 = 1 \/ b % 2 = 1 THEN 1 ELSE 0) + 2 * BitOr(a \div 2, b \div 2)

\* The loop of timingSafeEquals from index i on: result |= a[i] ^ b[i].
RECURSIVE XorFold(_, _, _, _)
XorFold(a, b, i, result) ==
  IF i > Len(a) THEN result
  ELSE XorFold(a, b, i + 1, BitOr(result, BitXor(a[i], b[i])))

\* Mutant: the loop stops one character short.
timingSafeEquals_shortLoop(a, b) ==
  IF Len(a) # Len(b) THEN FALSE
  ELSE XorFold(SubSeq(a, 1, Len(a) - 1), b, 1, 0) = 0

\* Mutant: the differences are accumulated with ^ and may cancel out.
RECURSIVE XorFold_xorAssign(_, _, _, _)
XorFold_xorAssign(a, b, i, result) ==
  IF i > Len(a) THEN result
  ELSE XorFold_xorAssign(a, b, i + 1, BitXor(result, BitXor(a[i], b[i])))

timingSafeEquals_xorAssign(a, b) ==
  IF Len(a) # Len(b) THEN FALSE
  ELSE XorFold_xorAssign(a, b, 1, 0) = 0

\* Mutant: the verdict of the loop is inverted.
timingSafeEquals_inverted(a, b) ==
  IF Len(a) # Len(b) THEN FALSE
  ELSE XorFold(a, b, 1, 0) # 0

timingSafeEquals(a, b) ==
  IF Len(a) # Len(b) THEN FALSE
  ELSE XorFold(a, b, 1, 0) = 0

\* No call of timingSafeEquals is being traced.
NoComparison ==
  [pc |-> "idle", a |-> <<>>, b |-> <<>>, i |-> 0, result |-> 0, steps |-> 0, returned |-> FALSE]

\* password || ''
OrEmpty(h) == IF h.present /\ h.value # <<>> THEN h.value ELSE <<>>

(***************************************************************************)
(* Responses                                                               *)
(***************************************************************************)
CORS_HEADERS ==
  ( "Access-Control-Allow-Origin" :> "*" @@
    "Access-Control-Allow-Methods" :> "GET, POST, OPTIONS" @@
    "Access-Control-Allow-Headers" :> "Content-Type, X-Password" @@
    "Access-Control-Max-Age" :> "86400" )

NoHeaders == [h \in {} |-> ""]
NullBody == [null |-> TRUE]
NoResponse == [status |-> 0, body |-> NullBody, headers |-> NoHeaders]

\* Mutant: the extra headers are not spread into the response.
createJSONResponse_noSpread(data, status, headers) ==
  [ status |-> status,
    body |-> data,
    headers |-> ( "Content-Type" :> "application/json" @@
                  "Access-Control-Allow-Origin" :> "*" ) ]

\* createJSONResponse(data, { status, headers }): the extra headers are spread
\* last and win.
createJSONResponse(data, status, headers) ==
  [ status |-> status,
    body |-> data,
    headers |-> headers @@ ( "Content-Type" :> "application/json" @@
                             "Access-Control-Allow-Origin" :> "*" ) ]

\* Mutant: the preflight is answered through createJSONResponse.
PreflightResponse_json == createJSONResponse(NullBody, 200, CORS_HEADERS)

\* new Response(null, { headers: CONSTANTS.CORS_HEADERS }): status defaults to 200.
PreflightResponse == [status |-> 200, body |-> NullBody, headers |-> CORS_HEADERS]

\* An exception that leaves fetch: the runtime answers with its own error page.
UncaughtResponse == [status |-> 500, body |-> [exception |-> TRUE], headers |-> NoHeaders]

\* Number.prototype.toString for a non-negative integer: its decimal digits.
DigitChars == <<"0", "1", "2", "3", "4", "5", "6", "7", "8", "9">>
RECURSIVE toString(_)
toString(n) ==
  IF n < 10 THEN <<DigitChars[n + 1]>>
  ELSE toString(n \div 10) \o <<DigitChars[(n % 10) + 1]>>

\* Math.ceil(a / b) for b > 0.
Ceil(a, b) == -((-a) \div b)

(***************************************************************************)
(* Routes and upstream calls                                               *)
(***************************************************************************)
\* String.prototype.startsWith
startsWith(str, searchString) ==
  /\ Len(str) >= Len(searchString)
  /\ SubSeq(str, 1, Len(searchString)) = searchString

\* String.prototype.indexOf, from position i on; 0 when there is none.
RECURSIVE indexOf(_, _, _)
indexOf(str, searchString, i) ==
  IF i + Len(searchString) - 1 > Len(str) THEN 0
  ELSE IF SubSeq(str, i, i + Len(searchString) - 1) = searchString THEN i
  ELSE indexOf(str, searchString, i + 1)

\* str.split(separator)[1]: what stands between the first separator and the
\* next one (or the end); undefined when there is no separator.
splitSecond(str, separator) ==
  LET i == indexOf(str, separator, 1) IN
  IF i = 0 THEN Undefined
  ELSE LET rest == SubSeq(str, i + Len(separator), Len(str))
           j == indexOf(rest, separator, 1)
       IN IF j = 0 THEN rest ELSE SubSeq(rest, 1, j - 1)

DownloadUrlPrefix == <<"/", "download-url", "/">>

\* Mutant: /releases is matched as a prefix, like /download-url/.
Route_prefixReleases(pathname) ==
  IF startsWith(pathname, <<"/", "releases">>) THEN "releases"
  ELSE IF startsWith(pathname, DownloadUrlPrefix) THEN "asset"
  ELSE "info"

\* The three operations the path is matched against, in the order of the code.
Route(pathname) ==
  IF pathname = <<"/", "releases">> THEN "releases"
  ELSE IF startsWith(pathname, DownloadUrlPrefix) THEN "asset"
  ELSE "info"

\* fetchGitHubAPI(endpoint, env): the call it makes.
fetchGitHubAPI(endpoint, e) ==
  [ url |-> <<GITHUB_API_BASE>> \o endpoint,
    headers |-> ( "Authorization" :> <<"token ", e.GITHUB_TOKEN>> @@
                  "Accept" :> <<GITHUB_API_VERSION>> @@
                  "User-Agent" :> <<USER_AGENT>> ),
    redirect |-> "follow" ]

\* Mutant: the asset call follows the redirect like any other call.
fetchAsset_follow(assetId, e) ==
  [ url |-> <<GITHUB_API_BASE, "/repos/", e.REPO_NAME, "/releases/assets/">> \o assetId,
    headers |-> ( "Authorization" :> <<"token ", e.GITHUB_TOKEN>> @@
                  "Accept" :> <<"application/octet-stream">> @@
                  "User-Agent" :> <<USER_AGENT>> ),
    redirect |-> "follow" ]

\* The call for an asset: redirects are not followed.
fetchAsset(assetId, e) ==
  [ url |-> <<GITHUB_API_BASE, "/repos/", e.REPO_NAME, "/releases/assets/">> \o assetId,
    headers |-> ( "Authorization" :> <<"token ", e.GITHUB_TOKEN>> @@
                  "Accept" :> <<"application/octet-stream">> @@
                  "User-Agent" :> <<USER_AGENT>> ),
    redirect |-> "manual" ]

\* The info document of the root route.
InfoDocument ==
  [ name |-> "GitHub Release Proxy",
    endpoints |-> ( "/releases" :> "List all releases" @@
                    "/download-url/:assetId" :> "Get download URL for an asset" ),
    usage |-> "Add X-Password header with your password" ]

\* Mutant: the release list is wrapped in an object.
ReleasesResponse_wrapped(answer) ==
  IF answer.failed \/ json(answer.body).threw THEN UncaughtResponse
  ELSE createJSONResponse([releases |-> json(answer.body).data], 200,
                          "Cache-Control" :> RELEASES_CACHE_CONTROL)

\* What fetch returns on the /releases route for an upstream answer.
ReleasesResponse(answer) ==
  IF answer.failed \/ json(answer.body).threw THEN UncaughtResponse
  ELSE createJSONResponse(json(answer.body).data, 200,
                          "Cache-Control" :> RELEASES_CACHE_CONTROL)

\* Mutant: the upstream status is handed on when it is not 302.
AssetResponse_passStatus(assetResponse) ==
  IF assetResponse.failed THEN UncaughtResponse
  ELSE IF assetResponse.status = 302
  THEN createJSONResponse([downloadUrl |-> assetResponse.location], 200,
                          "Cache-Control" :> DOWNLOAD_URL_CACHE_CONTROL)
  ELSE createJSONResponse([error |-> "Asset not found"], assetResponse.status, NoHeaders)

\* What fetch returns on the /download-url/ route for an upstream answer.
AssetResponse(assetResponse) ==
  IF assetResponse.failed THEN UncaughtResponse
  ELSE IF assetResponse.status = 302
  THEN createJSONResponse([downloadUrl |-> assetResponse.location], 200,
                          "Cache-Control" :> DOWNLOAD_URL_CACHE_CONTROL)
  ELSE createJSONResponse([error |-> "Asset not found"], 404, NoHeaders)

(***************************************************************************)
(* State                                                                   *)
(***************************************************************************)
VARIABLES
  now,       \* Date.now(), in ms
  env,       \* the worker's bindings: KV (unbound, healthy, failing), VIEWER_PASSWORD
  kv,        \* the KV namespace: key -> entry
  inflight,  \* bag of the requests being handled (and answered, not yet delivered)
  failTimes, \* history: per client identity, the times of its 401 answers within the last BlockMs
  wrongRun,  \* history: per client identity, how many wrong passwords it sent in a row, and when the last
  cmp,       \* one call of timingSafeEquals, traced step by step: its arguments, loop index, result, steps done
  streak,    \* history: per client identity, the failures recorded in a row, each within BlockMs of the one before
  seen,      \* history: the identity headers of the request whose headers were read last
  clock,     \* the browser's Date.now(), in ms
  app,       \* the page (app.js): password, sessionStorage, timer ids, listeners, what is shown
  timers,    \* the page's pending setTimeout callbacks
  fetches,   \* bag of the page's fetch calls that have not been consumed yet
  cache      \* the service worker's API cache: URL -> cached response

\* The worker and its store; the history variables only observe them.
wvars == <<now, env, kv, inflight>>
hvars == <<failTimes, wrongRun, streak>>
\* What stands beside the worker and takes no part in its steps unless a
\* specification says so.
bvars == <<clock, app, timers, fetches, cache>>
ovars == <<seen, bvars>>
vars == <<now, env, kv, inflight, cmp, failTimes, wrongRun, streak, seen, clock, app, timers, fetches, cache>>

\* No request's headers have been read yet.
NoIPHeaders == [cf |-> NULL, xff |-> NULL, xreal |-> NULL]
\* setTimeout ids: no timer, and the timer of a callback due at a time.
NoTimer == [kind |-> "none", due |-> 0]
Timer(kind, due) == [kind |-> kind, due |-> due]
\* A null or empty password (both falsy), and nothing shown.
NoPassword == <<>>
NoMessage == <<>>
NothingShown == [html |-> "", active |-> FALSE]
NoCached == [present |-> FALSE]
\* The URLs the page fetches, as pathnames.
ReleasesUrl == <<"/", "releases">>
AssetUrl == <<"/", "download-url", "/", "123">>
ApiUrls == { ReleasesUrl, AssetUrl }
\* The page before anybody logged in, with nothing cached.
LoggedOutPage ==
  [ password |-> NoPassword, stored |-> NoPassword, lastActivity |-> NoMessage,
    sessionTimeoutId |-> NoTimer, warningTimeoutId |-> NoTimer, tracking |-> TRUE,
    loginBox |-> "block", logoutSection |-> FALSE, loading |-> "none",
    releases |-> NothingShown, error |-> NoMessage, opened |-> NoMessage ]
BrowserIdle ==
  /\ clock = 0
  /\ app = LoggedOutPage
  /\ timers = {}
  /\ fetches = EmptyBag
  /\ cache = [u \in ApiUrls |-> NoCached]
OthersIdle == seen = NoIPHeaders /\ BrowserIdle

NoEntry == [present |-> FALSE]
Entry(value, expiration) == [present |-> TRUE, value |-> value, expiration |-> expiration]

\* Outcomes of one KV operation: it succeeds, or (a failing store) it may throw.
KVOutcomes == IF env.KV = "failing" THEN {TRUE, FALSE} ELSE {TRUE}

(***************************************************************************)
(* checkRateLimit / updateRateLimit / resetRateLimit                       *)
(***************************************************************************)
\* Mutant: an identity is blocked only once its attempts are at the threshold.
checkRateLimit_threshold(e, store, clientIP, t, ok) ==
  IF e.KV = "unbound" THEN [isBlocked |-> FALSE]
  ELSE IF ~ok THEN [isBlocked |-> FALSE]
  ELSE LET rateLimitData == store[RateLimitKey(clientIP)] IN
       IF ~rateLimitData.present THEN [isBlocked |-> FALSE]
       ELSE IF rateLimitData.value.attempts >= MAX_FAILED_ATTEMPTS /\ t < rateLimitData.value.resetAt
            THEN [isBlocked |-> TRUE,
                  retryAfter |-> Ceil(rateLimitData.value.resetAt - t, 1000)]
            ELSE [isBlocked |-> FALSE]

\* Mutant: without a store every identity is blocked.
checkRateLimit_failClosed(e, store, clientIP, t, ok) ==
  IF e.KV = "unbound"
  THEN [isBlocked |-> TRUE, retryAfter |-> BLOCK_DURATION_MINUTES * 60]
  ELSE IF ~ok THEN [isBlocked |-> FALSE]
  ELSE LET rateLimitData == store[RateLimitKey(clientIP)] IN
       IF ~rateLimitData.present THEN [isBlocked |-> FALSE]
       ELSE IF t < rateLimitData.value.resetAt
            THEN [isBlocked |-> TRUE,
                  retryAfter |-> Ceil(rateLimitData.value.resetAt - t, 1000)]
            ELSE [isBlocked |-> FALSE]

\* Mutant: a store error blocks the identity.
checkRateLimit_closedOnError(e, store, clientIP, t, ok) ==
  IF e.KV = "unbound" THEN [isBlocked |-> FALSE]
  ELSE IF ~ok THEN [isBlocked |-> TRUE, retryAfter |-> BLOCK_DURATION_MINUTES * 60]
  ELSE LET rateLimitData == store[RateLimitKey(clientIP)] IN
       IF ~rateLimitData.present THEN [isBlocked |-> FALSE]
       ELSE IF t < rateLimitData.value.resetAt
            THEN [isBlocked |-> TRUE,
                  retryAfter |-> Ceil(rateLimitData.value.resetAt - t, 1000)]
            ELSE [isBlocked |-> FALSE]

\* Mutant: the seconds are rounded down.
checkRateLimit_floor(e, store, clientIP, t, ok) ==
  IF e.KV = "unbound" THEN [isBlocked |-> FALSE]
  ELSE IF ~ok THEN [isBlocked |-> FALSE]
  ELSE LET rateLimitData == store[RateLimitKey(clientIP)] IN
       IF ~rateLimitData.present THEN [isBlocked |-> FALSE]
       ELSE IF t < rateLimitData.value.resetAt
            THEN [isBlocked |-> TRUE,
                  retryAfter |-> (rateLimitData.value.resetAt - t) \div 1000]
            ELSE [isBlocked |-> FALSE]

\* Mutant: retryAfter is left in milliseconds.
checkRateLimit_millis(e, store, clientIP, t, ok) ==
  IF e.KV = "unbound" THEN [isBlocked |-> FALSE]
  ELSE IF ~ok THEN [isBlocked |-> FALSE]
  ELSE LET rateLimitData == store[RateLimitKey(clientIP)] IN
       IF ~rateLimitData.present THEN [isBlocked |-> FALSE]
       ELSE IF t < rateLimitData.value.resetAt
            THEN [isBlocked |-> TRUE, retryAfter |-> rateLimitData.value.resetAt - t]
            ELSE [isBlocked |-> FALSE]

\* ok: whether env.KV.get (and JSON.parse) went through without throwing.
checkRateLimit(e, store, clientIP, t, ok) ==
  IF e.KV = "unbound" THEN [isBlocked |-> FALSE]
  ELSE IF ~ok THEN [isBlocked |-> FALSE]
  ELSE LET rateLimitData == store[RateLimitKey(clientIP)] IN
       IF ~rateLimitData.present THEN [isBlocked |-> FALSE]
       ELSE IF t < rateLimitData.value.resetAt
            THEN [isBlocked |-> TRUE,
                  retryAfter |-> Ceil(rateLimitData.value.resetAt - t, 1000)]
            ELSE [isBlocked |-> FALSE]

\* Mutant: the failure is not written.
updateRateLimit_noPut(e, store, clientIP, currentAttempts, t, ok) == store

\* Mutant: below the threshold the attempts are incremented and a resetAt already
\* in the store is kept.
updateRateLimit_keepsResetAt(e, store, clientIP, currentAttempts, t, ok) ==
  IF e.KV = "unbound" THEN store
  ELSE LET newAttempts == currentAttempts + 1 IN
       IF ~ok THEN store
       ELSE IF newAttempts >= MAX_FAILED_ATTEMPTS
            THEN [store EXCEPT ![RateLimitKey(clientIP)] =
                    Entry([attempts |-> newAttempts, resetAt |-> t + BlockMs], t + TtlMs)]
            ELSE [store EXCEPT ![RateLimitKey(clientIP)] =
                    Entry([attempts |-> newAttempts,
                           resetAt |-> IF store[RateLimitKey(clientIP)].present
                                       THEN store[RateLimitKey(clientIP)].value.resetAt
                                       ELSE t + BlockMs],
                          t + TtlMs)]

\* Mutant: the put carries no expirationTtl, the record stays for good.
updateRateLimit_noTtl(e, store, clientIP, currentAttempts, t, ok) ==
  IF e.KV = "unbound" THEN store
  ELSE LET newAttempts == currentAttempts + 1 IN
       IF ~ok THEN store
       ELSE [store EXCEPT ![RateLimitKey(clientIP)] =
               Entry([attempts |-> newAttempts, resetAt |-> t + BlockMs], t + 1000 * TtlMs)]

\* The store after updateRateLimit(env, clientIP, currentAttempts) at time t.
updateRateLimit(e, store, clientIP, currentAttempts, t, ok) ==
  IF e.KV = "unbound" THEN store
  ELSE LET newAttempts == currentAttempts + 1 IN
       IF ~ok THEN store
       ELSE IF newAttempts >= MAX_FAILED_ATTEMPTS
            THEN LET resetAt == t + BlockMs IN
                 [store EXCEPT ![RateLimitKey(clientIP)] =
                    Entry([attempts |-> newAttempts, resetAt |-> resetAt], t + TtlMs)]
            ELSE [store EXCEPT ![RateLimitKey(clientIP)] =
                    Entry([attempts |-> newAttempts, resetAt |-> t + BlockMs], t + TtlMs)]

\* Mutant: nothing is deleted.
resetRateLimit_noDelete(e, store, clientIP, ok) == store

\* Mutant: only the record of a blocked identity (attempts at the threshold) is deleted.
resetRateLimit_ifBlocked(e, store, clientIP, ok) ==
  IF e.KV = "unbound" THEN store
  ELSE IF ~ok THEN store
  ELSE IF store[RateLimitKey(clientIP)].present
          /\ store[RateLimitKey(clientIP)].value.attempts >= MAX_FAILED_ATTEMPTS
       THEN [store EXCEPT ![RateLimitKey(clientIP)] = NoEntry]
       ELSE store

\* Mutant: the record is overwritten with a cleared one, not deleted.
resetRateLimit_putsZero(e, store, clientIP, ok) ==
  IF e.KV = "unbound" THEN store
  ELSE IF ~ok THEN store
  ELSE [store EXCEPT ![RateLimitKey(clientIP)] =
          Entry([attempts |-> 0, resetAt |-> 0], TtlMs)]

\* The store after resetRateLimit(env, clientIP).
resetRateLimit(e, store, clientIP, ok) ==
  IF e.KV = "unbound" THEN store
  ELSE IF ~ok THEN store
  ELSE [store EXCEPT ![RateLimitKey(clientIP)] = NoEntry]

\* fetch, lines 225-236: the attempts read back on the failure path.
currentAttemptsOf(e, store, clientIP, ok) ==
  IF e.KV = "unbound" THEN 0
  ELSE IF ~ok THEN 0
  ELSE LET rateLimitData == store[RateLimitKey(clientIP)] IN
       IF rateLimitData.present THEN rateLimitData.value.attempts ELSE 0

(***************************************************************************)
(* Requests                                                                *)
(***************************************************************************)
\* A request just received: nothing but its method has been read.
NewRequest(method) ==
  [ pc |-> "start", method |-> method, password |-> NoHeader, clientIP |-> NULL,
    path |-> NoPath, isValidPassword |-> FALSE, currentAttempts |-> 0,
    response |-> NoResponse, ops |-> <<>> ]

\* What a request did, in order: its ops field.  A store operation is logged with
\* what the store answered.
KvGetOp(e, store, clientIP, ok) ==
  IF e.KV = "unbound" THEN <<>>
  ELSE << <<"kv.get", IF ~ok THEN "throw"
                      ELSE IF store[RateLimitKey(clientIP)].present THEN "data" ELSE "null">> >>
KvPutOp(e, ok) ==
  IF e.KV = "unbound" THEN <<>> ELSE << <<"kv.put", IF ok THEN "ok" ELSE "throw">> >>
KvDeleteOp(e, store, clientIP, ok) ==
  IF e.KV = "unbound" THEN <<>>
  ELSE << <<"kv.delete", IF ~ok THEN "throw"
                         ELSE IF store[RateLimitKey(clientIP)].present THEN "removed" ELSE "absent">> >>
Op(name) == << <<name>> >>
\* An upstream call is logged with the call made and the answer it got.
\* Mutant: the upstream call is made a second time.
UpstreamOp_retry(request, answer) ==
  << <<"upstream", request, answer>>, <<"upstream", request, answer>> >>

UpstreamOp(request, answer) == << <<"upstream", request, answer>> >>
\* The positions of the operations called name in a request's ops.
OpsAt(q, name) == { i \in 1..Len(q.ops) : q.ops[i][1] = name }
HasOp(q, name) == OpsAt(q, name) # {}

Requests == BagToSet(inflight)
Step(q, q2) == inflight' = (inflight (-) SetToBag({q})) (+) SetToBag({q2})
\* Mutant: the token of the upstream call is attached to every response.
Respond_echoToken(q, response, ops) ==
  [q EXCEPT !.pc = "done",
            !.response = [response EXCEPT !.headers = @ @@ ("X-Upstream-Token" :> env.GITHUB_TOKEN)],
            !.ops = q.ops \o ops]

Respond(q, response, ops) ==
  [q EXCEPT !.pc = "done", !.response = response, !.ops = q.ops \o ops]


(***************************************************************************)
(* Actions                                                                 *)
(***************************************************************************)
InitTokens(kvModes, tokens) ==
  /\ now = 0
  /\ env \in [KV : kvModes, VIEWER_PASSWORD : ViewerPasswords,
              GITHUB_TOKEN : tokens, REPO_NAME : RepoNames]
  /\ kv = [k \in RateLimitKeys |-> NoEntry]
  /\ inflight = EmptyBag
  /\ failTimes = [ip \in ClientIPs |-> <<>>]
  /\ cmp = NoComparison
  /\ OthersIdle
  /\ wrongRun = [ip \in ClientIPs |-> [n |-> 0, last |-> 0]]
  /\ streak = [ip \in ClientIPs |-> [n |-> 0, last |-> 0, ended |-> 0]]

InitWith(kvModes) == InitTokens(kvModes, {"ghp_A"})

\* A request reaches the worker.
Receive(max, methods) ==
  /\ BagCardinality(inflight) < max
  /\ \E method \in methods : inflight' = inflight (+) SetToBag({NewRequest(method)})
  /\ UNCHANGED <<now, env, kv>>

\* fetch, lines 197-200: the CORS preflight.
Preflight ==
  \E q \in Requests :
    /\ q.pc = "start"
    /\ q.method = "OPTIONS"
    /\ Step(q, Respond(q, PreflightResponse, <<>>))
    /\ UNCHANGED <<now, env, kv>>

\* fetch, lines 202-221: the headers are read, checkRateLimit reads the store,
\* a blocked identity is answered 429, otherwise the password is compared.
CheckRateLimit(passwords, headerCases) ==
  \E q \in Requests, password \in passwords, h \in headerCases, ok \in KVOutcomes :
    /\ q.pc = "start"
    /\ q.method # "OPTIONS"
    /\ LET clientIP == getClientIP(h)
           rateLimitCheck == checkRateLimit(env, kv, clientIP, now, ok)
           read == KvGetOp(env, kv, clientIP, ok)
           r == [q EXCEPT !.password = password, !.clientIP = clientIP]
       IN IF rateLimitCheck.isBlocked
          THEN Step(q, Respond(r,
                 createJSONResponse(
                   [error |-> "Too many failed attempts. Try again later.",
                    retryAfter |-> rateLimitCheck.retryAfter],
                   429,
                   "Retry-After" :> toString(rateLimitCheck.retryAfter)),
                 read))
          ELSE LET isValidPassword == timingSafeEquals(OrEmpty(password), env.VIEWER_PASSWORD)
               IN Step(q, [r EXCEPT !.pc = IF isValidPassword THEN "reset" ELSE "attempts",
                                    !.isValidPassword = isValidPassword,
                                    !.ops = read \o Op("compare")])
    /\ UNCHANGED <<now, env, kv>>

\* fetch, lines 223-236: the failure path reads the current attempts.
GetCurrentAttempts ==
  \E q \in Requests, ok \in KVOutcomes :
    /\ q.pc = "attempts"
    /\ Step(q, [q EXCEPT !.pc = "update",
                         !.currentAttempts = currentAttemptsOf(env, kv, q.clientIP, ok),
                         !.ops = q.ops \o KvGetOp(env, kv, q.clientIP, ok)])
    /\ UNCHANGED <<now, env, kv>>

\* fetch, lines 238-241: updateRateLimit writes the record, then the 401.
UpdateRateLimit ==
  \E q \in Requests, ok \in KVOutcomes :
    /\ q.pc = "update"
    /\ kv' = updateRateLimit(env, kv, q.clientIP, q.currentAttempts, now, ok)
    /\ Step(q, Respond(q, createJSONResponse([error |-> "Invalid password"], 401, NoHeaders),
                       Op("updateRateLimit") \o KvPutOp(env, ok)))
    /\ UNCHANGED <<now, env>>

\* fetch, lines 244-258 and 285-293: resetRateLimit deletes the record, then the
\* path is matched; the info document needs no upstream call.
ResetRateLimit ==
  \E q \in Requests, path \in Paths, ok \in KVOutcomes :
    /\ q.pc = "reset"
    /\ kv' = resetRateLimit(env, kv, q.clientIP, ok)
    /\ LET ops == Op("resetRateLimit") \o KvDeleteOp(env, kv, q.clientIP, ok)
           r == [q EXCEPT !.path = path]
       IN IF Route(path) = "releases"
          THEN Step(q, [r EXCEPT !.pc = "releases", !.ops = q.ops \o ops])
          ELSE IF Route(path) = "asset"
          THEN Step(q, [r EXCEPT !.pc = "asset", !.ops = q.ops \o ops])
          ELSE Step(q, Respond(r, createJSONResponse(InfoDocument, 200, NoHeaders), ops))
    /\ UNCHANGED <<now, env>>

\* fetch, lines 248-255: the release list is fetched and passed through.
ListReleases ==
  \E q \in Requests, response \in ReleaseAnswers :
    /\ q.pc = "releases"
    /\ Step(q, Respond(q, ReleasesResponse(response),
              UpstreamOp(fetchGitHubAPI(<<"/repos/", env.REPO_NAME, "/releases">>, env),
                         response)))
    /\ UNCHANGED <<now, env, kv>>

\* fetch, lines 258-283: the asset's redirect is resolved.
ResolveAsset ==
  \E q \in Requests, assetResponse \in AssetAnswers :
    /\ q.pc = "asset"
    /\ LET assetId == splitSecond(q.path, DownloadUrlPrefix)
       IN Step(q, Respond(q, AssetResponse(assetResponse),
                 UpstreamOp(fetchAsset(assetId, env), assetResponse)))
    /\ UNCHANGED <<now, env, kv>>

\* The response reaches the caller; the request is over.
Deliver ==
  \E q \in Requests :
    /\ q.pc = "done"
    /\ inflight' = inflight (-) SetToBag({q})
    /\ UNCHANGED <<now, env, kv>>

\* Time passes.
Tick ==
  /\ \E t \in Instants : t > now /\ now' = t
  /\ UNCHANGED <<env, kv, inflight>>

\* The store drops an entry whose expirationTtl has run out.
Expire ==
  \E k \in RateLimitKeys :
    /\ kv[k].present
    /\ now >= kv[k].expiration
    /\ kv' = [kv EXCEPT ![k] = NoEntry]
    /\ UNCHANGED <<now, env, inflight>>

(***************************************************************************)
(* History: what an observer of the worker's answers records.              *)
(***************************************************************************)
\* The requests answered in this step (at most one).
Answered ==
  { q \in BagToSet(inflight') : q.pc = "done" /\ CopiesIn(q, inflight') > CopiesIn(q, inflight) }

\* The 401 times of an identity still within BlockMs of a 401 at time t.
Recent(times, t) == SelectSeq(times, LAMBDA s : t - s < BlockMs)
\* The history after a 401 at time t; no more than MAX_FAILED_ATTEMPTS + 1 times
\* are kept, the oldest is dropped.
Logged(times, t) ==
  LET all == Append(Recent(times, t), t)
  IN IF Len(all) > MAX_FAILED_ATTEMPTS + 1 THEN Tail(all) ELSE all

\* The caller's secret is not the configured one (or is missing).
WrongOrMissing(q) == ~q.password.present \/ q.password.value # env.VIEWER_PASSWORD

\* The observer logs every 401.
LogFailures ==
  failTimes' = [ip \in ClientIPs |->
                  IF \E q \in Answered : q.clientIP = ip /\ q.response.status = 401
                  THEN Logged(failTimes[ip], now)
                  ELSE failTimes[ip]]

\* The observer counts the wrong passwords an identity sends in a row (answered
\* 401 or 429), up to MAX_FAILED_ATTEMPTS + 1; a correct one ends the run.
LogWrongRun ==
  wrongRun' = [ip \in ClientIPs |->
                 IF \E q \in Answered : q.clientIP = ip /\ WrongOrMissing(q)
                 THEN [n |-> IF wrongRun[ip].n > MAX_FAILED_ATTEMPTS
                             THEN wrongRun[ip].n ELSE wrongRun[ip].n + 1,
                       last |-> now]
                 ELSE IF \E q \in Answered : q.clientIP = ip
                 THEN [n |-> 0, last |-> 0]
                 ELSE wrongRun[ip]]

ObserveFailures == LogFailures /\ UNCHANGED <<wrongRun, streak, cmp, ovars>>
ObserveAll == LogFailures /\ LogWrongRun /\ UNCHANGED <<streak, cmp, ovars>>

\* Nobody observes.
Unobserved == UNCHANGED <<hvars, cmp, ovars>>

\* No identity is recorded more failures in a row than this.
MaxAttempts == 6

\* No record holds more attempts than MaxAttempts.
AttemptsCapped ==
  \A k \in RateLimitKeys : kv'[k].present => kv'[k].value.attempts <= MaxAttempts

(***************************************************************************)
(* Spec: requests of two identities, handled concurrently.                 *)
(***************************************************************************)
Init == InitWith({"unbound", "healthy"})

Next ==
  \/ Receive(MaxInflight, Methods) /\ Unobserved
  \/ Preflight /\ Unobserved
  \/ CheckRateLimit(PasswordHeaders, IPHeaderCases) /\ Unobserved
  \/ GetCurrentAttempts /\ Unobserved
  \/ UpdateRateLimit /\ AttemptsCapped /\ Unobserved
  \/ ResetRateLimit /\ Unobserved
  \/ ListReleases /\ Unobserved
  \/ ResolveAsset /\ Unobserved
  \/ Deliver /\ Unobserved
  \/ Tick /\ Unobserved
  \/ Expire /\ Unobserved

Spec == Init /\ [][Next]_vars

(***************************************************************************)
(* SpecSeq: the same worker, one request at a time.                        *)
(***************************************************************************)
NextSeq ==
  \/ Receive(1, Methods) /\ Unobserved
  \/ Preflight /\ Unobserved
  \/ CheckRateLimit(PasswordHeaders, IPHeaderCases) /\ Unobserved
  \/ GetCurrentAttempts /\ Unobserved
  \/ UpdateRateLimit /\ Unobserved
  \/ ResetRateLimit /\ Unobserved
  \/ ListReleases /\ Unobserved
  \/ ResolveAsset /\ Unobserved
  \/ Deliver /\ Unobserved
  \/ Tick /\ Unobserved
  \/ Expire /\ Unobserved

SpecSeq == Init /\ [][NextSeq]_vars

(***************************************************************************)
(* SpecLog: a healthy store, one identity, one request at a time, and an   *)
(* observer.                                                               *)
(***************************************************************************)
InitLog == InitWith({"healthy"})

NextLog ==
  \/ Receive(1, Methods) /\ ObserveAll
  \/ Preflight /\ ObserveAll
  \/ CheckRateLimit(PasswordHeaders, OneIdentity) /\ ObserveAll
  \/ GetCurrentAttempts /\ ObserveAll
  \/ UpdateRateLimit /\ ObserveAll
  \/ ResetRateLimit /\ ObserveAll
  \/ ListReleases /\ ObserveAll
  \/ ResolveAsset /\ ObserveAll
  \/ Deliver /\ ObserveAll
  \/ Tick /\ ObserveAll
  \/ Expire /\ ObserveAll

SpecLog == InitLog /\ [][NextLog]_vars

(***************************************************************************)
(* SpecBurst: one identity sends wrong passwords, up to                    *)
(* MAX_FAILED_ATTEMPTS + 1 requests at once, against a healthy store; the  *)
(* answers stay where they are.                                            *)
(***************************************************************************)
MaxBurst == MAX_FAILED_ATTEMPTS + 1

InitBurst == InitWith({"healthy"})

NextBurst ==
  \/ Receive(MaxBurst, {"GET"}) /\ ObserveFailures
  \/ CheckRateLimit({Header(<<1, 3>>)}, OneIdentity) /\ ObserveFailures
  \/ GetCurrentAttempts /\ ObserveFailures
  \/ UpdateRateLimit /\ ObserveFailures
  \/ Tick /\ ObserveFailures
  \/ Expire /\ ObserveFailures

SpecBurst == InitBurst /\ [][NextBurst]_vars

(***************************************************************************)
(* SpecLimiter: the rate limiter on its own, against a healthy store: a    *)
(* caller records failures and successes for the identities, as fetch does *)
(* on its two paths, and time passes.                                      *)
(***************************************************************************)
\* fetch, lines 223-239: the attempts are read back and updateRateLimit writes.
RecordFailure ==
  \E clientIP \in ClientIPs :
    LET currentAttempts == currentAttemptsOf(env, kv, clientIP, TRUE) IN
    /\ currentAttempts < MaxAttempts
    /\ kv' = updateRateLimit(env, kv, clientIP, currentAttempts, now, TRUE)
    /\ streak' = [streak EXCEPT ![clientIP] =
                    [n |-> IF @.n > 0 /\ now - @.last < BlockMs THEN @.n + 1 ELSE 1,
                     last |-> now, ended |-> 0]]
    /\ UNCHANGED <<now, env, inflight, cmp, failTimes, wrongRun, ovars>>

\* fetch, lines 244-245: resetRateLimit.
RecordSuccess ==
  \E clientIP \in ClientIPs :
    /\ kv' = resetRateLimit(env, kv, clientIP, TRUE)
    /\ streak' = [streak EXCEPT ![clientIP] = [n |-> 0, last |-> 0, ended |-> @.n]]
    /\ UNCHANGED <<now, env, inflight, cmp, failTimes, wrongRun, ovars>>

InitLimiter == InitWith({"healthy"})

NextLimiter ==
  \/ RecordFailure
  \/ RecordSuccess
  \/ Tick /\ Unobserved
  \/ Expire /\ Unobserved

SpecLimiter == InitLimiter /\ [][NextLimiter]_vars

(***************************************************************************)
(* SpecOpen: the worker without a KV binding, one request at a time, and   *)
(* an observer of the 401s.                                                *)
(***************************************************************************)
InitOpen == InitWith({"unbound"})

NextOpen ==
  \/ Receive(1, Methods) /\ ObserveFailures
  \/ Preflight /\ ObserveFailures
  \/ CheckRateLimit(PasswordHeaders, OneIdentity) /\ ObserveFailures
  \/ GetCurrentAttempts /\ ObserveFailures
  \/ UpdateRateLimit /\ ObserveFailures
  \/ ResetRateLimit /\ ObserveFailures
  \/ ListReleases /\ ObserveFailures
  \/ ResolveAsset /\ ObserveFailures
  \/ Deliver /\ ObserveFailures
  \/ Tick /\ ObserveFailures

SpecOpen == InitOpen /\ [][NextOpen]_vars

(***************************************************************************)
(* SpecFail: the worker with a KV namespace whose operations may throw,    *)
(* one identity, one request at a time.                                    *)
(***************************************************************************)
InitFail == InitWith({"failing"})

NextFail ==
  \/ Receive(1, Methods) /\ Unobserved
  \/ Preflight /\ Unobserved
  \/ CheckRateLimit(PasswordHeaders, OneIdentity) /\ Unobserved
  \/ GetCurrentAttempts /\ Unobserved
  \/ UpdateRateLimit /\ AttemptsCapped /\ Unobserved
  \/ ResetRateLimit /\ Unobserved
  \/ ListReleases /\ Unobserved
  \/ ResolveAsset /\ Unobserved
  \/ Deliver /\ Unobserved
  \/ Tick /\ Unobserved
  \/ Expire /\ Unobserved

SpecFail == InitFail /\ [][NextFail]_vars

(***************************************************************************)
(* SpecRace: requests of one identity, right and wrong passwords, handled  *)
(* concurrently against a healthy store, all within one instant.           *)
(***************************************************************************)
InitRace == InitWith({"healthy"})

NextRace ==
  \/ Receive(MaxInflight, {"GET"}) /\ Unobserved
  \/ CheckRateLimit(PasswordHeaders, OneIdentity) /\ Unobserved
  \/ GetCurrentAttempts /\ Unobserved
  \/ UpdateRateLimit /\ AttemptsCapped /\ Unobserved
  \/ ResetRateLimit /\ Unobserved
  \/ ListReleases /\ Unobserved
  \/ ResolveAsset /\ Unobserved
  \/ Deliver /\ Unobserved

SpecRace == InitRace /\ [][NextRace]_vars

(***************************************************************************)
(* SpecCompare: one call of timingSafeEquals on two strings, statement by  *)
(* statement.                                                              *)
(***************************************************************************)
\* The strings compared are no longer than MaxLen, over the char codes 1..3.
MaxLen == 3
CharCodes == 1..3
Strings == UNION { [1..n -> CharCodes] : n \in 0..MaxLen }

\* Mutant: the loop also ends at the first difference.
LoopDone_earlyExit(c) == c.i > Len(c.a) \/ c.result # 0

\* The loop is over: i < a.length is false (i counts from 1 here).
LoopDone(c) == c.i > Len(c.a)

\* timingSafeEquals, lines 183-187: the lengths are compared.
CompareLengths ==
  /\ cmp.pc = "called"
  /\ cmp' = IF Len(cmp.a) # Len(cmp.b)
            THEN [cmp EXCEPT !.pc = "returned", !.returned = FALSE]
            ELSE [cmp EXCEPT !.pc = "loop", !.i = 1, !.result = 0]
  /\ UNCHANGED <<now, env, kv, inflight, hvars, ovars>>

\* timingSafeEquals, lines 188-190: one round of the loop.
CompareChar ==
  /\ cmp.pc = "loop"
  /\ ~LoopDone(cmp)
  /\ cmp' = [cmp EXCEPT !.result = BitOr(cmp.result, BitXor(cmp.a[cmp.i], cmp.b[cmp.i])),
                        !.i = cmp.i + 1,
                        !.steps = cmp.steps + 1]
  /\ UNCHANGED <<now, env, kv, inflight, hvars, ovars>>

\* timingSafeEquals, line 192: return result === 0.
CompareReturn ==
  /\ cmp.pc = "loop"
  /\ LoopDone(cmp)
  /\ cmp' = [cmp EXCEPT !.pc = "returned", !.returned = (cmp.result = 0)]
  /\ UNCHANGED <<now, env, kv, inflight, hvars, ovars>>

InitCompare ==
  /\ now = 0
  /\ env \in [KV : {"unbound"}, VIEWER_PASSWORD : ViewerPasswords,
              GITHUB_TOKEN : {"ghp_A"}, REPO_NAME : RepoNames]
  /\ kv = [k \in RateLimitKeys |-> NoEntry]
  /\ inflight = EmptyBag
  /\ cmp \in { [NoComparison EXCEPT !.pc = "called", !.a = a, !.b = b] : a, b \in Strings }
  /\ OthersIdle
  /\ failTimes = [ip \in ClientIPs |-> <<>>]
  /\ wrongRun = [ip \in ClientIPs |-> [n |-> 0, last |-> 0]]
  /\ streak = [ip \in ClientIPs |-> [n |-> 0, last |-> 0, ended |-> 0]]

NextCompare ==
  \/ CompareLengths
  \/ CompareChar
  \/ CompareReturn

SpecCompare == InitCompare /\ [][NextCompare]_vars

(***************************************************************************)
(* SpecRoutes: the worker, one request of one identity at a time, under    *)
(* either of two upstream tokens.                                          *)
(***************************************************************************)
InitRoutes == InitTokens({"unbound", "healthy"}, GitHubTokens)

NextRoutes ==
  \/ Receive(1, Methods) /\ Unobserved
  \/ Preflight /\ Unobserved
  \/ CheckRateLimit(PasswordHeaders, OneIdentity) /\ Unobserved
  \/ GetCurrentAttempts /\ Unobserved
  \/ UpdateRateLimit /\ Unobserved
  \/ ResetRateLimit /\ Unobserved
  \/ ListReleases /\ Unobserved
  \/ ResolveAsset /\ Unobserved
  \/ Deliver /\ Unobserved
  \/ Tick /\ Unobserved
  \/ Expire /\ Unobserved

SpecRoutes == InitRoutes /\ [][NextRoutes]_vars

(***************************************************************************)
(* SpecIdentity: a healthy store and one request at a time, whose three    *)
(* identity headers are each absent, empty, or one of two addresses.       *)
(***************************************************************************)
HeaderValues == { NULL, "", "10.0.0.1", "10.0.0.2" }
IdentityHeaders == [cf : HeaderValues, xff : HeaderValues, xreal : HeaderValues]

InitIdentity ==
  /\ now = 0
  /\ env \in [KV : {"healthy"}, VIEWER_PASSWORD : ViewerPasswords,
              GITHUB_TOKEN : {"ghp_A"}, REPO_NAME : RepoNames]
  /\ kv = [k \in { RateLimitKey(getClientIP(h)) : h \in IdentityHeaders } |-> NoEntry]
  /\ inflight = EmptyBag
  /\ cmp = NoComparison
  /\ OthersIdle
  /\ failTimes = [ip \in ClientIPs |-> <<>>]
  /\ wrongRun = [ip \in ClientIPs |-> [n |-> 0, last |-> 0]]
  /\ streak = [ip \in ClientIPs |-> [n |-> 0, last |-> 0, ended |-> 0]]

\* The headers of the request being read are kept.
ReadHeaders ==
  \E h \in IdentityHeaders :
    /\ CheckRateLimit(PasswordHeaders, {h})
    /\ seen' = h
    /\ UNCHANGED <<hvars, cmp, bvars>>

NextIdentity ==
  \/ Receive(1, {"GET"}) /\ Unobserved
  \/ ReadHeaders
  \/ GetCurrentAttempts /\ Unobserved
  \/ UpdateRateLimit /\ Unobserved
  \/ ResetRateLimit /\ Unobserved
  \/ ListReleases /\ Unobserved
  \/ ResolveAsset /\ Unobserved
  \/ Deliver /\ Unobserved

SpecIdentity == InitIdentity /\ [][NextIdentity]_vars

(***************************************************************************)
(* SpecIsolation: a healthy store and requests of two identities in flight *)
(* together, at one instant.                                               *)
(***************************************************************************)
InitIsolation == InitWith({"healthy"})

\* Every request asks for the info document: no upstream call is made.
InfoOnly == \A q \in BagToSet(inflight') : q.path \in {NoPath, <<"/">>}

NextIsolation ==
  \/ Receive(MaxInflight, {"GET"}) /\ Unobserved
  \/ CheckRateLimit(PasswordHeaders, IPHeaderCases) /\ Unobserved
  \/ GetCurrentAttempts /\ Unobserved
  \/ UpdateRateLimit /\ AttemptsCapped /\ Unobserved
  \/ ResetRateLimit /\ InfoOnly /\ Unobserved
  \/ Deliver /\ Unobserved

SpecIsolation == InitIsolation /\ [][NextIsolation]_vars

(***************************************************************************)
(* The plain worker (cloudflare-worker.js), and SpecPlain: the rate-       *)
(* limiting worker without a store, one request at a time.                 *)
(***************************************************************************)
\* Mutant: a request without the header is let in.
plainVerify_missingOk(password, e) == ~password.present \/ password.value = e.VIEWER_PASSWORD

\* cloudflare-worker.js line 39: password !== env.VIEWER_PASSWORD is false; a
\* missing header is null.
plainVerify(password, e) == password.present /\ password.value = e.VIEWER_PASSWORD

plainJSON(data, status, headers) ==
  [ status |-> status, body |-> data,
    headers |-> headers @@ ( "Content-Type" :> "application/json" @@
                             "Access-Control-Allow-Origin" :> "*" ) ]

\* cloudflare-worker.js, fetch: the response to a request and the upstream
\* calls made for it, given what upstream answers.
plainFetch(method, password, pathname, answer, e) ==
  IF method = "OPTIONS"
  THEN [ response |-> [ status |-> 200, body |-> NullBody,
                        headers |-> ( "Access-Control-Allow-Origin" :> "*" @@
                                      "Access-Control-Allow-Methods" :> "GET, POST, OPTIONS" @@
                                      "Access-Control-Allow-Headers" :> "Content-Type, X-Password" @@
                                      "Access-Control-Max-Age" :> "86400" ) ],
         calls |-> <<>> ]
  ELSE IF ~plainVerify(password, e)
  THEN [ response |-> plainJSON([error |-> "Invalid password"], 401, NoHeaders), calls |-> <<>> ]
  ELSE IF pathname = <<"/", "releases">>
  THEN [ response |-> IF answer.failed \/ json(answer.body).threw THEN UncaughtResponse
                      ELSE plainJSON(json(answer.body).data, 200,
                                     "Cache-Control" :> "public, max-age=60"),
         calls |-> << << "upstream",
                         [ url |-> <<"https://api.github.com", "/repos/", e.REPO_NAME, "/releases">>,
                           headers |-> ( "Authorization" :> <<"token ", e.GITHUB_TOKEN>> @@
                                         "Accept" :> <<"application/vnd.github.v3+json">> @@
                                         "User-Agent" :> <<"Cloudflare-Worker">> ),
                           redirect |-> "follow" ],
                         answer >> >> ]
  ELSE IF startsWith(pathname, <<"/", "download-url", "/">>)
  THEN [ response |-> IF answer.failed THEN UncaughtResponse
                      ELSE IF answer.status = 302
                      THEN plainJSON([downloadUrl |-> answer.location], 200,
                                     "Cache-Control" :> "no-cache")
                      ELSE plainJSON([error |-> "Asset not found"], 404, NoHeaders),
         calls |-> << << "upstream",
                         [ url |-> <<"https://api.github.com", "/repos/", e.REPO_NAME,
                                     "/releases/assets/">>
                                   \o splitSecond(pathname, <<"/", "download-url", "/">>),
                           headers |-> ( "Authorization" :> <<"token ", e.GITHUB_TOKEN>> @@
                                         "Accept" :> <<"application/octet-stream">> @@
                                         "User-Agent" :> <<"Cloudflare-Worker">> ),
                           redirect |-> "manual" ],
                         answer >> >> ]
  ELSE [ response |-> plainJSON(
           [ name |-> "GitHub Release Proxy",
             endpoints |-> ( "/releases" :> "List all releases" @@
                             "/download-url/:assetId" :> "Get download URL for an asset" ),
             usage |-> "Add X-Password header with your password" ], 200, NoHeaders),
         calls |-> <<>> ]

InitPlain == InitTokens({"unbound"}, GitHubTokens)

NextPlain ==
  \/ Receive(1, Methods) /\ Unobserved
  \/ Preflight /\ Unobserved
  \/ CheckRateLimit(PasswordHeaders \cup {Header(<<>>)}, IPHeaderCases) /\ Unobserved
  \/ GetCurrentAttempts /\ Unobserved
  \/ UpdateRateLimit /\ Unobserved
  \/ ResetRateLimit /\ Unobserved
  \/ ListReleases /\ Unobserved
  \/ ResolveAsset /\ Unobserved
  \/ Deliver /\ Unobserved

SpecPlain == InitPlain /\ [][NextPlain]_vars

(***************************************************************************)
(* The inline worker (the README's worker with rate limiting written out   *)
(* in fetch), and SpecInline: the refactored worker, one request at a      *)
(* time, with a store that may throw.                                      *)
(***************************************************************************)
\* Inline fetch, from the store lookup to the route: what it answers before the
\* routes (passed: it went on to them), the store it leaves and the puts and
\* deletes it makes.  okGet: env.KV.get and JSON.parse did not throw; okWrite:
\* neither did the put or delete.  The value read at check time is used again
\* on the failure path; after a failed read rateLimitingEnabled is false.
inlineFetch(e, store, clientIP, password, t, okGet, okWrite) ==
  LET rateLimitKey == RateLimitKey(clientIP)
      rateLimitingEnabled == e.KV # "unbound" /\ okGet
      rateLimitData == IF rateLimitingEnabled THEN store[rateLimitKey] ELSE NoEntry
  IN IF rateLimitData.present /\ t < rateLimitData.value.resetAt
     THEN LET retryAfter == Ceil(rateLimitData.value.resetAt - t, 1000) IN
          [ passed |-> FALSE,
            response |-> plainJSON([error |-> "Too many failed attempts. Try again later.",
                                    retryAfter |-> retryAfter],
                                   429, "Retry-After" :> toString(retryAfter)),
            store |-> store, writes |-> <<>> ]
     ELSE IF ~timingSafeEquals(OrEmpty(password), e.VIEWER_PASSWORD)
     THEN LET currentData == IF rateLimitData.present THEN rateLimitData.value
                             ELSE [attempts |-> 0, resetAt |-> 0]
              newAttempts == currentData.attempts + 1
          IN [ passed |-> FALSE,
               response |-> plainJSON([error |-> "Invalid password"], 401, NoHeaders),
               store |-> IF rateLimitingEnabled /\ okWrite
                         THEN [store EXCEPT ![rateLimitKey] =
                                 Entry([attempts |-> newAttempts,
                                        resetAt |-> t + 15 * 60 * 1000], t + 900 * 1000)]
                         ELSE store,
               writes |-> IF rateLimitingEnabled
                          THEN << <<"kv.put", IF okWrite THEN "ok" ELSE "throw">> >>
                          ELSE <<>> ]
     ELSE [ passed |-> TRUE,
            response |-> NoResponse,
            store |-> IF rateLimitingEnabled /\ okWrite
                      THEN [store EXCEPT ![rateLimitKey] = NoEntry]
                      ELSE store,
            writes |-> IF rateLimitingEnabled
                       THEN << <<"kv.delete", IF ~okWrite THEN "throw"
                                              ELSE IF store[rateLimitKey].present THEN "removed"
                                              ELSE "absent">> >>
                       ELSE <<>> ]

InitInline == InitWith({"healthy", "failing"})

\* Between two requests time passes and the store drops what ran out.
Idle == inflight = EmptyBag

NextInline ==
  \/ Receive(1, {"GET"}) /\ Unobserved
  \/ CheckRateLimit(PasswordHeaders, OneIdentity) /\ Unobserved
  \/ GetCurrentAttempts /\ Unobserved
  \/ UpdateRateLimit /\ AttemptsCapped /\ Unobserved
  \/ ResetRateLimit /\ Unobserved
  \/ ListReleases /\ Unobserved
  \/ ResolveAsset /\ Unobserved
  \/ Deliver /\ Unobserved
  \/ Tick /\ Idle /\ Unobserved
  \/ Expire /\ Idle /\ Unobserved

SpecInline == InitInline /\ [][NextInline]_vars

(***************************************************************************)
(* The page (app.js) and the service worker (sw.js)                        *)
(***************************************************************************)
SESSION_TIMEOUT_MS == 30 * 60 * 1000
WARNING_TIME_MS == 5 * 60 * 1000
ERROR_SHOWN_MS == 5000
WARNING_SHOWN_MS == 10000
SW_CACHE_TTL == 5 * 60 * 1000

\* response.ok
ok(response) == response.status \in 200..299

\* parseInt of a string of decimal digits.
DigitValue(ch) == CHOOSE d \in 0..9 : DigitChars[d + 1] = ch
RECURSIVE parseInt(_)
parseInt(str) ==
  IF Len(str) = 0 THEN 0
  ELSE 10 * parseInt(SubSeq(str, 1, Len(str) - 1)) + DigitValue(str[Len(str)])

\* String.prototype.includes
includes(str, searchString) == indexOf(str, searchString, 1) # 0

\* startSessionTimeout, lines 427-445: both timers are cleared and set again.
startSessionTimeout(a, ts, t) ==
  LET warning == Timer("warning", t + SESSION_TIMEOUT_MS - WARNING_TIME_MS)
      session == Timer("session", t + SESSION_TIMEOUT_MS)
  IN [ app |-> [a EXCEPT !.warningTimeoutId = warning, !.sessionTimeoutId = session,
                         !.lastActivity = toString(t)],
       timers |-> (ts \ {a.sessionTimeoutId, a.warningTimeoutId}) \cup {warning, session} ]

\* Mutant: the timers are restarted whether anybody is logged in or not.
resetSessionTimeout_always(a, ts, t) == startSessionTimeout(a, ts, t)

\* resetSessionTimeout, lines 447-451.
resetSessionTimeout(a, ts, t) ==
  IF a.password # NoPassword THEN startSessionTimeout(a, ts, t)
  ELSE [app |-> a, timers |-> ts]

\* showError, lines 397-409: the message is shown and cleared 5 s later.
showError(a, ts, t, message) ==
  [ app |-> [a EXCEPT !.error = message],
    timers |-> ts \cup {Timer("clearError", t + ERROR_SHOWN_MS)} ]

\* showSessionWarning, lines 453-470.
SessionWarning ==
  <<"Your session will expire in 5 minutes due to inactivity. Move your mouse or press a key to extend your session.">>
showSessionWarning(a, ts, t) ==
  [ app |-> [a EXCEPT !.error = SessionWarning],
    timers |-> ts \cup {Timer("hideWarning", t + WARNING_SHOWN_MS)} ]

\* logout, lines 96-113.
logout(a, ts) ==
  [ app |-> [a EXCEPT !.stored = NoPassword, !.lastActivity = NoMessage,
                      !.password = NoPassword,
                      !.sessionTimeoutId = NoTimer, !.warningTimeoutId = NoTimer,
                      !.tracking = FALSE,
                      !.loginBox = "block", !.logoutSection = FALSE,
                      !.releases = NothingShown],
    timers |-> ts \ {a.sessionTimeoutId, a.warningTimeoutId} ]

\* A fetch call of the page: which function made it, the URL, the X-Password
\* header, and, once the service worker answered, what the network did and
\* what the page gets.
Rejected == [rejected |-> TRUE, response |-> NoResponse]
Arrived(response) == [rejected |-> FALSE, response |-> response]
Fetch(kind, url, password) ==
  [ kind |-> kind, url |-> url, password |-> password, pc |-> "sent",
    network |-> Rejected, reply |-> Rejected ]

\* loadReleases, lines 115-130: up to the fetch.
loadReleasesSent(a) ==
  [a EXCEPT !.loading = "block", !.releases = NothingShown, !.error = NoMessage]

\* What the worker answers to a call: 429 to anybody, 401 to a wrong password,
\* and to the right one what the route makes of an upstream answer.
RetryAfters == { 900, 30 }
WorkerAnswers(url, password) ==
  { createJSONResponse([error |-> "Too many failed attempts. Try again later.",
                        retryAfter |-> n], 429, "Retry-After" :> toString(n)) : n \in RetryAfters }
  \cup
  IF ~timingSafeEquals(password, env.VIEWER_PASSWORD)
  THEN { createJSONResponse([error |-> "Invalid password"], 401, NoHeaders) }
  ELSE IF Route(url) = "releases" THEN { ReleasesResponse(a) : a \in ReleaseAnswers }
  ELSE { AssetResponse(a) : a \in AssetAnswers }

\* What fetch(event.request) does in the service worker.
Network(c) == {Rejected} \cup { Arrived(r) : r \in WorkerAnswers(c.url, c.password) }

\* sw.js, lines 64-75: the copy put in the cache.
cacheResponse(url, response, t) ==
  IF includes(url, DownloadUrlPrefix)
  THEN [response EXCEPT !.headers = ( "sw-cache-timestamp" :> toString(t) @@
                                      "sw-cache-ttl" :> toString(SW_CACHE_TTL) @@ @ )]
  ELSE response

HeaderOr(response, name, default) ==
  IF name \in DOMAIN response.headers THEN response.headers[name] ELSE default

\* Mutant: an entry is expired as soon as its age reaches the TTL.
swFetch_expiresAtTtl(store, url, outcome, t) ==
  IF ~outcome.rejected
  THEN [ reply |-> outcome,
         cache |-> IF ok(outcome.response)
                   THEN [store EXCEPT ![url] = [present |-> TRUE,
                                                response |-> cacheResponse(url, outcome.response, t)]]
                   ELSE store ]
  ELSE LET cachedResponse == store[url] IN
       [ reply |->
           IF cachedResponse.present /\ includes(url, DownloadUrlPrefix)
              /\ t - parseInt(HeaderOr(cachedResponse.response, "sw-cache-timestamp", <<"0">>))
                   >= parseInt(HeaderOr(cachedResponse.response, "sw-cache-ttl", <<"0">>))
           THEN Arrived([status |-> 410, body |-> [error |-> "Download URL expired"],
                         headers |-> "Content-Type" :> "application/json"])
           ELSE IF cachedResponse.present THEN Arrived(cachedResponse.response)
           ELSE Rejected,
         cache |-> store ]

\* sw.js, lines 55-104: the fetch listener for API calls.
swFetch(store, url, outcome, t) ==
  IF ~outcome.rejected
  THEN [ reply |-> outcome,
         cache |-> IF ok(outcome.response)
                   THEN [store EXCEPT ![url] = [present |-> TRUE,
                                                response |-> cacheResponse(url, outcome.response, t)]]
                   ELSE store ]
  ELSE LET cachedResponse == store[url] IN
       [ reply |->
           IF cachedResponse.present /\ includes(url, DownloadUrlPrefix)
              /\ t - parseInt(HeaderOr(cachedResponse.response, "sw-cache-timestamp", <<"0">>))
                   > parseInt(HeaderOr(cachedResponse.response, "sw-cache-ttl", <<"0">>))
           THEN Arrived([status |-> 410, body |-> [error |-> "Download URL expired"],
                         headers |-> "Content-Type" :> "application/json"])
           ELSE IF cachedResponse.present THEN Arrived(cachedResponse.response)
           ELSE Rejected,
         cache |-> store ]

\* The passwords typed into the login box: nothing, the right one, a wrong one.
LoginInputs == { <<>>, <<1, 2>>, <<1, 3>> }
MaxFetches == 1
ClockStep == 5 * 60 * 1000
MaxClockSteps == 7

\* The worker takes no step.
WorkerStill == UNCHANGED <<wvars, hvars, cmp, seen>>

PendingFetches == BagToSet(fetches)
Consume(c) == fetches (-) SetToBag({c})

\* login, lines 48-62: the password typed is sent to /releases.
ClickLogin(inputs) ==
  \E inputPassword \in inputs :
    /\ app.loginBox = "block"
    /\ IF inputPassword = <<>>
       THEN LET r == showError(app, timers, clock, <<"Please enter a password">>)
            IN app' = r.app /\ timers' = r.timers /\ UNCHANGED fetches
       ELSE /\ BagCardinality(fetches) < MaxFetches
            /\ fetches' = fetches (+) SetToBag({Fetch("login", ReleasesUrl, inputPassword)})
            /\ UNCHANGED <<app, timers>>
    /\ UNCHANGED <<clock, cache>>
    /\ WorkerStill

\* The message of the error login throws for a response that is not ok.
loginError(response) ==
  IF response.status = 429
  THEN <<response.body.error>> \o
       ( IF response.body.retryAfter # 0
         THEN <<" (try again in ">> \o toString(Ceil(response.body.retryAfter, 60)) \o <<" minutes)">>
         ELSE <<>> )
  ELSE IF response.status = 401 THEN <<"Invalid password">>
  ELSE <<"Server error: ">> \o toString(response.status)

\* login, lines 91-93: whatever was thrown, this is shown.
loginCatch(err) == <<"Invalid password. Please try again.">>

\* login, lines 64-93: the answer to the login's fetch.
LoginReply ==
  \E c \in PendingFetches :
    /\ c.pc = "answered"
    /\ c.kind = "login"
    /\ IF c.reply.rejected \/ ~ok(c.reply.response)
       THEN LET err == IF c.reply.rejected THEN <<"Failed to fetch">>
                       ELSE loginError(c.reply.response)
                r == showError(app, timers, clock, loginCatch(err))
            IN /\ app' = r.app
               /\ timers' = r.timers
               /\ fetches' = Consume(c)
       ELSE LET in == [app EXCEPT !.stored = c.password, !.password = c.password,
                                  !.loginBox = "none", !.logoutSection = TRUE]
                r == startSessionTimeout(in, timers, clock)
            IN /\ app' = loadReleasesSent([r.app EXCEPT !.tracking = TRUE])
               /\ timers' = r.timers
               /\ fetches' = Consume(c) (+) SetToBag({Fetch("load", ReleasesUrl, c.password)})
    /\ UNCHANGED <<clock, cache>>
    /\ WorkerStill

\* The message of the error loadReleases throws for a response that is not ok.
loadError(response) ==
  IF response.status = 429
  THEN <<response.body.error>> \o
       ( IF response.body.retryAfter # 0
         THEN <<" (try again in ">> \o toString(Ceil(response.body.retryAfter, 60)) \o <<" minutes)">>
         ELSE <<>> )
  ELSE IF response.status = 401 THEN <<"Session expired. Please log in again.">>
  ELSE <<"Failed to fetch releases (">> \o toString(response.status) \o <<")">>

\* loadReleases, lines 132-167: the answer to its fetch.
LoadReply ==
  \E c \in PendingFetches :
    /\ c.pc = "answered"
    /\ c.kind = "load"
    /\ fetches' = Consume(c)
    /\ LET response == c.reply.response
           idle == [app EXCEPT !.loading = "none"]
       IN IF c.reply.rejected
          THEN LET r == showError(idle, timers, clock, <<"Failed to fetch">>)
               IN app' = r.app /\ timers' = r.timers
          ELSE IF ~ok(response)
          THEN LET out == IF response.status = 401 THEN logout(idle, timers)
                          ELSE [app |-> idle, timers |-> timers]
                   r == showError(out.app, out.timers, clock, loadError(response))
               IN app' = r.app /\ timers' = r.timers
          ELSE IF "array" \notin DOMAIN response.body
          THEN LET r == showError(idle, timers, clock, <<"releasesData.forEach is not a function">>)
               IN app' = r.app /\ timers' = r.timers
          ELSE /\ app' = [idle EXCEPT !.releases =
                            [html |-> IF Len(response.body.array) = 0
                                      THEN "No releases found" ELSE "releases",
                             active |-> TRUE]]
               /\ UNCHANGED timers
    /\ UNCHANGED <<clock, cache>>
    /\ WorkerStill

\* downloadAsset, lines 281-295: a download button of a release shown is clicked.
ClickDownload ==
  /\ app.releases = [html |-> "releases", active |-> TRUE]
  /\ BagCardinality(fetches) < MaxFetches
  /\ fetches' = fetches (+) SetToBag({Fetch("download", AssetUrl, app.password)})
  /\ UNCHANGED <<clock, app, timers, cache>>
  /\ WorkerStill

\* The message of the error downloadAsset throws for a response that is not ok.
downloadError(response) ==
  IF response.status = 429
  THEN <<response.body.error>> \o
       ( IF response.body.retryAfter # 0
         THEN <<" (try again in ">> \o toString(Ceil(response.body.retryAfter, 60)) \o <<" minutes)">>
         ELSE <<>> )
  ELSE IF response.status = 401 THEN <<"Session expired. Please log in again.">>
  ELSE IF response.status = 404 THEN <<"Download URL not found">>
  ELSE <<"Failed to get download URL (">> \o toString(response.status) \o <<")">>

\* downloadAsset, lines 297-330: the answer to its fetch.
DownloadReply ==
  \E c \in PendingFetches :
    /\ c.pc = "answered"
    /\ c.kind = "download"
    /\ fetches' = Consume(c)
    /\ LET response == c.reply.response
       IN IF c.reply.rejected
          THEN LET r == showError(app, timers, clock, <<"Failed to download: ", "Failed to fetch">>)
               IN app' = r.app /\ timers' = r.timers
          ELSE IF ~ok(response)
          THEN LET out == IF response.status = 401 THEN logout(app, timers)
                          ELSE [app |-> app, timers |-> timers]
                   r == showError(out.app, out.timers, clock,
                                  <<"Failed to download: ">> \o downloadError(response))
               IN app' = r.app /\ timers' = r.timers
          ELSE /\ app' = [app EXCEPT !.opened = <<response.body.downloadUrl>>]
               /\ UNCHANGED timers
    /\ UNCHANGED <<clock, cache>>
    /\ WorkerStill

\* The logout button, shown while logoutSection is active.
ClickLogout ==
  /\ app.logoutSection
  /\ LET r == logout(app, timers) IN app' = r.app /\ timers' = r.timers
  /\ UNCHANGED <<clock, fetches, cache>>
  /\ WorkerStill

\* A mouse, key, scroll or touch event; resetSessionTimeout hears it while the
\* listeners are on.
Activity ==
  /\ IF app.tracking
     THEN LET r == resetSessionTimeout(app, timers, clock) IN app' = r.app /\ timers' = r.timers
     ELSE UNCHANGED <<app, timers>>
  /\ UNCHANGED <<clock, fetches, cache>>
  /\ WorkerStill

\* The timer due first fires.
TimerFire ==
  \E timer \in timers :
    /\ timer.due <= clock
    /\ \A other \in timers : timer.due <= other.due
    /\ LET left == timers \ {timer}
           r == CASE timer.kind = "warning" -> showSessionWarning(app, left, clock)
                  [] timer.kind = "session" ->
                       LET out == logout(app, left)
                       IN showError(out.app, out.timers, clock,
                            <<"Session expired due to inactivity. Please log in again.">>)
                  [] timer.kind = "clearError" ->
                       [app |-> [app EXCEPT !.error = NoMessage], timers |-> left]
                  [] timer.kind = "hideWarning" ->
                       [app |-> IF app.error = SessionWarning
                                THEN [app EXCEPT !.error = NoMessage] ELSE app,
                        timers |-> left]
       IN app' = r.app /\ timers' = r.timers
    /\ UNCHANGED <<clock, fetches, cache>>
    /\ WorkerStill

\* Time passes in the browser; a timer that is due fires first.
ClockTick ==
  /\ clock < MaxClockSteps * ClockStep
  /\ \A timer \in timers : timer.due > clock
  /\ clock' = clock + ClockStep
  /\ UNCHANGED <<app, timers, fetches, cache>>
  /\ WorkerStill

\* The service worker's fetch listener handles a call of the page; the
\* network does one of the things in outcomes.
SwFetch(outcomes) ==
  \E c \in PendingFetches : \E outcome \in Network(c) \cap outcomes :
    /\ c.pc = "sent"
    /\ LET r == swFetch(cache, c.url, outcome, clock)
       IN /\ fetches' = Consume(c) (+) SetToBag({[c EXCEPT !.pc = "answered",
                                                          !.network = outcome,
                                                          !.reply = r.reply]})
          /\ cache' = r.cache
    /\ UNCHANGED <<clock, app, timers>>
    /\ WorkerStill

\* Everything the network can do, and the network while it works and the
\* worker lets the caller in.
AllOutcomes == UNION { Network(Fetch("login", url, password)) :
                         url \in ApiUrls, password \in LoginInputs }
Refused == { o \in AllOutcomes : ~o.rejected /\ o.response.status = 401 }
Served == { o \in AllOutcomes : ~o.rejected /\ o.response.status \in {200, 404} }

\* DOMContentLoaded, lines 11-22, with a password in sessionStorage: the
\* logged-in view, the timers, loadReleases, the listeners.
LoggedInPage(stored) ==
  startSessionTimeout([LoggedOutPage EXCEPT !.password = stored, !.stored = stored,
                                            !.loginBox = "none", !.logoutSection = TRUE],
                      {}, 0)

\* The page as it was loaded with a stored password (the right one or one the
\* worker no longer accepts), nothing cached, and a worker that is not looked at.
InitReturning ==
  /\ now = 0
  /\ env \in [KV : {"healthy"}, VIEWER_PASSWORD : ViewerPasswords,
              GITHUB_TOKEN : {"ghp_A"}, REPO_NAME : RepoNames]
  /\ kv = [k \in RateLimitKeys |-> NoEntry]
  /\ inflight = EmptyBag
  /\ cmp = NoComparison
  /\ seen = NoIPHeaders
  /\ clock = 0
  /\ \E stored \in LoginInputs \ {<<>>} :
       /\ app = loadReleasesSent(LoggedInPage(stored).app)
       /\ timers = LoggedInPage(stored).timers
       /\ fetches = SetToBag({Fetch("load", ReleasesUrl, stored)})
  /\ cache = [u \in ApiUrls |-> NoCached]
  /\ failTimes = [ip \in ClientIPs |-> <<>>]
  /\ wrongRun = [ip \in ClientIPs |-> [n |-> 0, last |-> 0]]
  /\ streak = [ip \in ClientIPs |-> [n |-> 0, last |-> 0, ended |-> 0]]

\* The page as it was loaded without a stored password, nothing cached, and a
\* worker that is not looked at.
InitPage ==
  /\ now = 0
  /\ env \in [KV : {"healthy"}, VIEWER_PASSWORD : ViewerPasswords,
              GITHUB_TOKEN : {"ghp_A"}, REPO_NAME : RepoNames]
  /\ kv = [k \in RateLimitKeys |-> NoEntry]
  /\ inflight = EmptyBag
  /\ cmp = NoComparison
  /\ seen = NoIPHeaders
  /\ BrowserIdle
  /\ failTimes = [ip \in ClientIPs |-> <<>>]
  /\ wrongRun = [ip \in ClientIPs |-> [n |-> 0, last |-> 0]]
  /\ streak = [ip \in ClientIPs |-> [n |-> 0, last |-> 0, ended |-> 0]]

(***************************************************************************)
(* SpecSession: a user who knows the password logs in and out, is active   *)
(* or not, and time passes; the network works.                             *)
(***************************************************************************)
NextSession ==
  \/ ClickLogin({<<1, 2>>})
  \/ SwFetch(Served \cup Refused)
  \/ LoginReply
  \/ LoadReply
  \/ ClickLogout
  \/ Activity
  \/ TimerFire
  \/ ClockTick

SpecSession == (InitPage \/ InitReturning) /\ [][NextSession]_vars

(***************************************************************************)
(* SpecLogin: logins with any password, at one instant, over a network     *)
(* that may fail and a worker that may answer anything it can.             *)
(***************************************************************************)
NextLogin ==
  \/ ClickLogin(LoginInputs)
  \/ SwFetch(AllOutcomes)
  \/ LoginReply
  \/ LoadReply
  \/ ClickLogout

SpecLogin == InitPage /\ [][NextLogin]_vars

(***************************************************************************)
(* SpecDownloads: a logged-in user asks for download URLs as time passes,  *)
(* over a network that may fail.                                           *)
(***************************************************************************)
\* The cache is watched over this many clock steps.
MaxCacheSteps == 3
CacheWatched == clock < MaxCacheSteps * ClockStep

NextDownloads ==
  \/ ClickLogin({<<1, 2>>})
  \/ SwFetch(Served \cup {Rejected})
  \/ LoginReply
  \/ LoadReply
  \/ ClickDownload
  \/ DownloadReply
  \/ TimerFire
  \/ ClockTick /\ CacheWatched

SpecDownloads == InitPage /\ [][NextDownloads]_vars

(***************************************************************************)
(* Claims                                                                  *)
(***************************************************************************)
\* A request whose headers have been read.
Read(q) == q.method # "OPTIONS" /\ q.pc # "start"
\* The requests that moved in this step (at most one), as they are after it.
Moved == { q \in BagToSet(inflight') : CopiesIn(q, inflight') > CopiesIn(q, inflight) }
\* Bodies that carry release metadata, a download URL or the info document.
CarriesData(body) == DOMAIN body \cap {"array", "message", "downloadUrl", "name", "endpoints"} # {}

\* C1: a non-OPTIONS request whose X-Password is missing or differs from the
\* configured secret is answered 401 or 429, never 2xx, and never gets as far
\* as the routes; data is only returned to a request carrying the secret; a
\* missing header is compared as the empty string and is no error.
C1_WrongPasswordNeverServed ==
  \A q \in Requests :
    Read(q) =>
      /\ WrongOrMissing(q) =>
           /\ q.pc \in {"attempts", "update", "done"}
           /\ q.pc = "done" => q.response.status \in {401, 429}
           /\ ~HasOp(q, "upstream")
           /\ ~CarriesData(q.response.body)
      /\ (q.pc = "done" /\ (q.response.status \in 200..299 \/ CarriesData(q.response.body)))
           => q.password = Header(env.VIEWER_PASSWORD)

C1_Witness ==
  \E q \in Requests :
    /\ q.pc = "done" /\ q.method = "GET"
    /\ ~q.password.present
    /\ HasOp(q, "compare")
    /\ q.response.status = 401

\* C2: a request whose identity checkRateLimit reports blocked is answered 429
\* with the retryAfter of the check in the body and, as a string, in the
\* Retry-After header; it has done nothing but read the store (no comparison,
\* no put, no delete, no upstream call) and the store is unchanged; a request
\* that goes on to the comparator was not reported blocked.
C2_Step ==
  /\ \A q \in Answered :
       q.response.status = 429 =>
         /\ "retryAfter" \in DOMAIN q.response.body
         /\ q.response.body.retryAfter
              = checkRateLimit(env, kv, q.clientIP, now, TRUE).retryAfter
         /\ "Retry-After" \in DOMAIN q.response.headers
         /\ q.response.headers["Retry-After"] = toString(q.response.body.retryAfter)
         /\ q.ops = << <<"kv.get", "data">> >>
         /\ kv' = kv
  /\ \A q \in Moved :
       (q.method # "OPTIONS" /\ Len(q.ops) > 0 /\ q.ops[Len(q.ops)] = <<"compare">>)
         => ~checkRateLimit(env, kv, q.clientIP, now, TRUE).isBlocked

C2_BlockedAnswered429 == [][C2_Step]_vars

C2_Witness ==
  \E q \in Requests :
    /\ q.pc = "done"
    /\ q.response.status = 429
    /\ q.password = Header(env.VIEWER_PASSWORD)

\* C3: a request that reached the comparator with a wrong password is answered
\* 401 {error: 'Invalid password'}; updateRateLimit ran before the answer (with
\* a healthy store the record of this failure is in the store as the answer is
\* produced); it made no upstream call and did not call resetRateLimit.
C3_Step ==
  \A q \in Answered :
    (HasOp(q, "compare") /\ WrongOrMissing(q)) =>
      /\ q.response.status = 401
      /\ q.response.body = [error |-> "Invalid password"]
      /\ HasOp(q, "updateRateLimit")
      /\ ~HasOp(q, "upstream")
      /\ ~HasOp(q, "resetRateLimit")
      /\ ~HasOp(q, "kv.delete")
      /\ env.KV = "healthy" =>
           /\ q.ops[Len(q.ops)] = <<"kv.put", "ok">>
           /\ kv'[RateLimitKey(q.clientIP)]
                = Entry([attempts |-> q.currentAttempts + 1, resetAt |-> now + BlockMs],
                        now + TtlMs)

C3_FailureRecordedBefore401 == [][C3_Step]_vars

C3_Witness ==
  \E q \in Requests :
    /\ q.pc = "done"
    /\ q.response.status = 401
    /\ env.KV = "healthy"
    /\ HasOp(q, "kv.put")
    /\ kv[RateLimitKey(q.clientIP)].present

\* C4: a request that passed the comparator has called resetRateLimit before
\* it is routed and before its upstream call; with a healthy store and one
\* request at a time, the identity has no record from then until the request
\* is over, whatever the record was.
C4_SuccessDeletesRecord ==
  \A q \in Requests :
    (Read(q) /\ HasOp(q, "compare") /\ ~WrongOrMissing(q) /\ q.pc \in {"releases", "asset", "done"}) =>
      /\ HasOp(q, "resetRateLimit")
      /\ \A i \in OpsAt(q, "resetRateLimit"), j \in OpsAt(q, "upstream") : i < j
      /\ env.KV = "healthy" =>
           /\ HasOp(q, "kv.delete")
           /\ kv[RateLimitKey(q.clientIP)] = NoEntry

C4_Witness ==
  \E q \in Requests :
    /\ q.pc = "done"
    /\ q.response.status = 200
    /\ env.KV = "healthy"
    /\ \E i \in OpsAt(q, "kv.delete") : q.ops[i] = <<"kv.delete", "removed">>
    /\ kv[RateLimitKey(q.clientIP)] = NoEntry

\* C5: with a healthy store, no identity gets more than MAX_FAILED_ATTEMPTS
\* wrong passwords evaluated (answered 401) within BlockMs, however its
\* requests interleave.
C5_AtMostMaxFailuresPerWindow ==
  env.KV = "healthy" =>
    \A ip \in ClientIPs : Len(failTimes[ip]) <= MAX_FAILED_ATTEMPTS

\* C6: with a healthy store, after exactly MAX_FAILED_ATTEMPTS failures
\* recorded in a row for an identity, checkRateLimit reports it blocked with
\* retryAfter > 0 for as long as the window of the last failure runs; right
\* after one recordSuccess that follows them it reports the identity not blocked.
C6_BlockedAfterMaxThenReset ==
  \A ip \in ClientIPs :
    LET check == checkRateLimit(env, kv, ip, now, TRUE) IN
    /\ (streak[ip].n = MAX_FAILED_ATTEMPTS /\ now - streak[ip].last < BlockMs)
         => (check.isBlocked /\ check.retryAfter > 0)
    /\ streak[ip].ended = MAX_FAILED_ATTEMPTS => ~check.isBlocked

C6_Witness ==
  \E ip \in ClientIPs :
    /\ streak[ip].ended = MAX_FAILED_ATTEMPTS
    /\ ~kv[RateLimitKey(ip)].present

\* The requests whose headers were read and whose identity was checked in this
\* step (at most one), as they are after it.
JustChecked ==
  { q \in Moved : /\ q.method # "OPTIONS"
                  /\ Len(q.ops) > 0
                  /\ \/ q.ops[Len(q.ops)] = <<"compare">>
                     \/ Len(q.ops) = 1 /\ q.ops[1][1] = "kv.get" }

\* C7: an identity with fewer than MAX_FAILED_ATTEMPTS recorded failed attempts
\* is not blocked: checkRateLimit does not report it blocked, and a request
\* answered 429 found attempts >= MAX_FAILED_ATTEMPTS in the identity's record.
C7_Step ==
  /\ \A ip \in ClientIPs :
       currentAttemptsOf(env, kv', ip, TRUE) < MAX_FAILED_ATTEMPTS
         => ~checkRateLimit(env, kv', ip, now', TRUE).isBlocked
  /\ \A q \in Answered :
       q.response.status = 429
         => currentAttemptsOf(env, kv, q.clientIP, TRUE) >= MAX_FAILED_ATTEMPTS

C7_BlockOnlyAtThreshold == [][C7_Step]_vars

\* C8: with a healthy store, once an identity has been answered 401 (one
\* failure is enough), every request of that identity whose headers are read
\* less than BlockMs after its latest 401 is answered 429, whatever password
\* it carries.
C8_Step ==
  \A q \in JustChecked :
    LET times == failTimes[q.clientIP] IN
    (env.KV = "healthy" /\ times # <<>> /\ now < times[Len(times)] + BlockMs)
      => (q.pc = "done" /\ q.response.status = 429)

C9_Step ==
  \A q \in Answered :
    ( /\ Read(q)
      /\ ~WrongOrMissing(q)
      /\ wrongRun[q.clientIP].n = MAX_FAILED_ATTEMPTS
      /\ now - wrongRun[q.clientIP].last < BlockMs )
      => q.response.status = 429

C9_ScenarioA == [][C9_Step]_vars

\* C10: without a KV binding no request is answered 429, however many 401s the
\* identity has had; a wrong or missing password is answered 401, a correct
\* one is neither 401 nor 429 and reaches the routes.
C10_FailOpenWithoutStore ==
  env.KV = "unbound" =>
    \A q \in Requests :
      (q.pc = "done" /\ Read(q)) =>
        /\ q.response.status # 429
        /\ q.ops # <<>> /\ q.ops[1] = <<"compare">>
        /\ WrongOrMissing(q) => q.response.status = 401
        /\ ~WrongOrMissing(q) => (q.response.status \notin {401, 429} /\ q.path \in Paths)

C10_Witness ==
  \E q \in Requests :
    /\ env.KV = "unbound"
    /\ q.pc = "done"
    /\ q.response.status = 401
    /\ Len(failTimes[q.clientIP]) > MAX_FAILED_ATTEMPTS

\* The store operations of a request that threw.
Thrown(q) ==
  { i \in 1..Len(q.ops) : q.ops[i][1] \in {"kv.get", "kv.put", "kv.delete"} /\ q.ops[i][2] = "throw" }

\* C11: a store operation that throws (or a stored value that cannot be parsed)
\* is not surfaced: a request whose check could not read the store is not
\* blocked; attempts that could not be read count as 0; a request that met a
\* store error is answered 401 if its password is wrong and is routed if it is
\* right; a 5xx only ever follows an upstream call.
C11_StoreErrorsNotSurfaced ==
  \A q \in Requests :
    Read(q) =>
      /\ (Len(q.ops) > 0 /\ q.ops[1] = <<"kv.get", "throw">>) =>
           /\ Len(q.ops) > 1 /\ q.ops[2] = <<"compare">>
           /\ q.pc = "done" => q.response.status # 429
      /\ (q.pc \in {"update", "done"} /\ 3 \in Thrown(q)) => q.currentAttempts = 0
      /\ (q.pc = "done" /\ Thrown(q) # {}) =>
           /\ WrongOrMissing(q) => q.response.status = 401
           /\ ~WrongOrMissing(q) => (q.path \in Paths /\ q.response.status \notin {401, 429})
      /\ (q.pc = "done" /\ q.response.status >= 500) => HasOp(q, "upstream")

C11_Witness ==
  \E q \in Requests :
    /\ q.pc = "done"
    /\ q.response.status = 200
    /\ Len(q.ops) > 0 /\ q.ops[1] = <<"kv.get", "throw">>
    /\ \E i \in Thrown(q) : q.ops[i][1] = "kv.delete"
    /\ checkRateLimit(env, kv, q.clientIP, now, TRUE).isBlocked

\* The store with the attempts of an identity's record set to a.
WithAttempts(store, clientIP, a) ==
  [store EXCEPT ![RateLimitKey(clientIP)].value.attempts = a]

\* C12: checkRateLimit reports not blocked when the identity has no record;
\* blocked, with retryAfter the least number of seconds covering resetAt - now,
\* when there is a record and now < resetAt; not blocked when there is a record
\* and now >= resetAt.  The attempts of the record make no difference, and the
\* step in which a request is checked leaves the store as it was.
C12_Step ==
  /\ \A ip \in ClientIPs :
       LET entry == kv[RateLimitKey(ip)]
           check == checkRateLimit(env, kv, ip, now, TRUE)
       IN /\ ~entry.present => check = [isBlocked |-> FALSE]
          /\ (entry.present /\ now < entry.value.resetAt) =>
               /\ check.isBlocked
               /\ check.retryAfter * 1000 >= entry.value.resetAt - now
               /\ (check.retryAfter - 1) * 1000 < entry.value.resetAt - now
          /\ (entry.present /\ now >= entry.value.resetAt) => check = [isBlocked |-> FALSE]
          /\ entry.present =>
               \A a \in 0..(MaxAttempts + 1) :
                 checkRateLimit(env, WithAttempts(kv, ip, a), ip, now, TRUE) = check
  /\ \A q \in JustChecked :
       /\ kv' = kv
       /\ (q.pc = "done" /\ q.response.status = 429)
            <=> ( /\ kv[RateLimitKey(q.clientIP)].present
                  /\ now < kv[RateLimitKey(q.clientIP)].value.resetAt )

C12_CheckDependsOnResetAtOnly == [][C12_Step]_vars

C12_Witness ==
  \E q \in Requests :
    /\ q.pc \in {"reset", "attempts"}
    /\ kv[RateLimitKey(q.clientIP)].present
    /\ now >= kv[RateLimitKey(q.clientIP)].value.resetAt

\* C13: the failure path reads the attempts of the identity's record (0 when
\* there is none or the read throws), and updateRateLimit, when its put goes
\* through, writes attempts = that + 1 and resetAt = now + BlockMs, to expire
\* TtlMs from now, the same below and from MAX_FAILED_ATTEMPTS on.
C13_Step ==
  /\ \A q \in Moved :
       q.pc = "update" =>
         LET entry == kv[RateLimitKey(q.clientIP)]
             read == q.ops[Len(q.ops)]
         IN /\ read[1] = "kv.get"
            /\ read[2] = "data" => (entry.present /\ q.currentAttempts = entry.value.attempts)
            /\ read[2] \in {"null", "throw"} => q.currentAttempts = 0
            /\ read[2] = "null" <=> (~entry.present /\ read[2] # "throw")
  /\ \A q \in Answered :
       (q.response.status = 401 /\ q.ops[Len(q.ops)] = <<"kv.put", "ok">>) =>
         LET entry == kv'[RateLimitKey(q.clientIP)] IN
         /\ entry.present
         /\ entry.value.attempts = q.currentAttempts + 1
         /\ entry.value.resetAt = now + BLOCK_DURATION_MINUTES * 60 * 1000
         /\ entry.expiration = now + RATE_LIMIT_TTL_SECONDS * 1000

C13_FailureWritesAttemptsAndResetAt == [][C13_Step]_vars

C13_Witness ==
  \E q \in Requests :
    /\ q.pc = "done"
    /\ q.response.status = 401
    /\ q.ops[Len(q.ops)] = <<"kv.put", "ok">>
    /\ kv[RateLimitKey(q.clientIP)].present
    /\ kv[RateLimitKey(q.clientIP)].value.attempts = MAX_FAILED_ATTEMPTS
    /\ kv[RateLimitKey(q.clientIP)].value.resetAt = now + BlockMs
    /\ now > 0

\* C14: the retryAfter of a 429 is a whole number of seconds, more than 0 and
\* no more than BLOCK_DURATION_MINUTES * 60, in the body and in the header.
C14_RetryAfterInRange ==
  \A q \in Requests :
    (q.pc = "done" /\ q.response.status = 429) =>
      /\ q.response.body.retryAfter \in 1..(BLOCK_DURATION_MINUTES * 60)
      /\ \E n \in 1..(BLOCK_DURATION_MINUTES * 60) : q.response.headers["Retry-After"] = toString(n)

C14_Witness ==
  /\ \E q \in Requests :
       q.pc = "done" /\ q.response.status = 429 /\ q.response.body.retryAfter = 1
  /\ \E k \in RateLimitKeys : kv[k].present /\ kv[k].value.resetAt - now = 1

\* C15: as long as an identity's record stays in the store, a write never
\* lowers its attempts.
C15_Step ==
  \A k \in RateLimitKeys :
    (kv[k].present /\ kv'[k].present) => kv'[k].value.attempts >= kv[k].value.attempts

C15_AttemptsNeverDecrease == [][C15_Step]_vars

\* The failures of an identity recorded at the time its record was last written:
\* all of them were recorded since the record was created.
RecordedAtLastWrite(ip) ==
  { i \in DOMAIN failTimes[ip] : failTimes[ip][i] = kv[RateLimitKey(ip)].expiration - TtlMs }

\* C16: once no request of an identity is between its check and its answer, the
\* attempts in the identity's record are at least the number of failures
\* recorded since the record was created, less one.
C16_AtMostOneLostIncrement ==
  \A ip \in ClientIPs :
    ( /\ env.KV = "healthy"
      /\ kv[RateLimitKey(ip)].present
      /\ \A q \in Requests : q.pc \in {"start", "done"} )
      => kv[RateLimitKey(ip)].value.attempts >= Cardinality(RecordedAtLastWrite(ip)) - 1

\* The identity's record blocks it now.
Blocking(ip) == kv[RateLimitKey(ip)].present /\ now < kv[RateLimitKey(ip)].value.resetAt

\* C17: a request with the correct password whose check finds no record that
\* blocks its identity goes on to resetRateLimit and the routes; from then on,
\* whatever other requests of the identity write in between, it is never sent
\* to the failure path and never answered 401 or 429.
C17_Step ==
  \A q \in Moved :
    (Read(q) /\ ~WrongOrMissing(q)) =>
      /\ (q \in JustChecked /\ ~Blocking(q.clientIP)) => (q.pc = "reset" /\ q.isValidPassword)
      /\ HasOp(q, "compare") =>
           /\ q.pc \in {"reset", "releases", "asset", "done"}
           /\ q.pc # "reset" => (HasOp(q, "resetRateLimit") /\ q.path \in Paths)
           /\ q.pc = "done" => q.response.status \notin {401, 429}
           /\ ~HasOp(q, "updateRateLimit")

C17_RaceNeverBlocksSuccess == [][C17_Step]_vars

C17_Witness ==
  \E q \in Requests :
    /\ q.pc = "done"
    /\ ~WrongOrMissing(q)
    /\ q.response.status = 200
    /\ HasOp(q, "upstream")
    /\ Blocking(q.clientIP)

\* C18: a record blocks its identity until BlockMs after the identity's latest
\* 401 and no longer: from then on checkRateLimit reports not blocked and the
\* store may drop the record; a 429 leaves the record as it is, so it postpones
\* neither.
C18_Step ==
  /\ \A ip \in ClientIPs :
       LET times == failTimes[ip]
           entry == kv[RateLimitKey(ip)]
       IN /\ entry.present =>
               /\ times # <<>>
               /\ entry.value.resetAt = times[Len(times)] + BlockMs
               /\ entry.expiration = times[Len(times)] + BlockMs
          /\ (times # <<>> /\ now >= times[Len(times)] + BlockMs) =>
               /\ ~checkRateLimit(env, kv, ip, now, TRUE).isBlocked
               /\ entry.present => now >= entry.expiration
  /\ \A q \in Answered : q.response.status = 429 => kv' = kv

C18_BlockEndsAfterLastFailure == [][C18_Step]_vars

C18_Witness ==
  \E ip \in ClientIPs :
    /\ failTimes[ip] # <<>>
    /\ wrongRun[ip].n >= 2
    /\ wrongRun[ip].last > failTimes[ip][Len(failTimes[ip])]
    /\ now >= failTimes[ip][Len(failTimes[ip])] + BlockMs
    /\ ~kv[RateLimitKey(ip)].present

\* The requests that called resetRateLimit in this step (at most one), as they
\* are after it.
JustReset ==
  { q \in Moved : \/ q.pc \in {"releases", "asset"}
                  \/ q.pc = "done" /\ q.path # NoPath /\ Route(q.path) = "info" }

\* C19: resetRateLimit for an identity without a record leaves the store as it
\* is, once and twice in a row, and creates no record; the request that called
\* it goes on to its route.
C19_Step ==
  /\ \A ip \in ClientIPs :
       ~kv[RateLimitKey(ip)].present =>
         LET once == resetRateLimit(env, kv, ip, TRUE) IN
         /\ once = kv
         /\ resetRateLimit(env, once, ip, TRUE) = kv
  /\ \A q \in JustReset :
       <<"kv.delete", "absent">> \in { q.ops[i] : i \in DOMAIN q.ops } =>
         /\ kv' = kv
         /\ ~kv'[RateLimitKey(q.clientIP)].present
         /\ q.pc = "done" => q.response.status = 200

C19_ResetIdempotent == [][C19_Step]_vars

C19_Witness ==
  /\ BagCardinality(inflight) = 2
  /\ \A q \in Requests :
       /\ q.pc = "done"
       /\ q.response.status = 200
       /\ <<"kv.delete", "absent">> \in { q.ops[i] : i \in DOMAIN q.ops }
       /\ ~kv[RateLimitKey(q.clientIP)].present

\* C20: an OPTIONS request is answered in its first step, with status 200, no
\* body and exactly the four static CORS headers; it reads no header, calls
\* neither the store nor the comparator nor the upstream, and the store is as
\* it was, whether or not an identity is blocked.
C20_Step ==
  \A q \in Moved :
    (q.method = "OPTIONS" /\ q.pc # "start") =>
      /\ q.pc = "done"
      /\ q.response.status = 200
      /\ q.response.body = [null |-> TRUE]
      /\ DOMAIN q.response.headers
           = { "Access-Control-Allow-Origin", "Access-Control-Allow-Methods",
               "Access-Control-Allow-Headers", "Access-Control-Max-Age" }
      /\ q.response.headers["Access-Control-Allow-Origin"] = "*"
      /\ q.response.headers["Access-Control-Allow-Methods"] = "GET, POST, OPTIONS"
      /\ q.response.headers["Access-Control-Allow-Headers"] = "Content-Type, X-Password"
      /\ q.response.headers["Access-Control-Max-Age"] = "86400"
      /\ q.ops = <<>>
      /\ q.password = NoHeader /\ q.clientIP = NULL /\ q.path = NoPath
      /\ kv' = kv

C20_PreflightTouchesNothing == [][C20_Step]_vars

C20_Witness ==
  /\ \E q \in Requests : q.method = "OPTIONS" /\ q.pc = "done"
  /\ \E ip \in ClientIPs : Blocking(ip)

\* C21: timingSafeEquals returns true exactly when its two arguments are the
\* same string: false for different lengths, and for equal lengths true iff
\* every character is the same.  The traced call and the operator the worker
\* uses agree.
C21_ComparatorDecidesEquality ==
  /\ cmp.pc = "returned" =>
       /\ cmp.returned <=> (cmp.a = cmp.b)
       /\ Len(cmp.a) # Len(cmp.b) => ~cmp.returned
       /\ cmp.returned <=> timingSafeEquals(cmp.a, cmp.b)
  /\ cmp.pc # "idle" => (timingSafeEquals(cmp.a, cmp.b) <=> (cmp.a = cmp.b))

C21_Witness ==
  /\ cmp.pc = "returned"
  /\ Len(cmp.a) = MaxLen /\ Len(cmp.b) = MaxLen
  /\ SubSeq(cmp.a, 1, MaxLen - 1) = SubSeq(cmp.b, 1, MaxLen - 1)
  /\ cmp.a[MaxLen] # cmp.b[MaxLen]
  /\ ~cmp.returned

\* C22: for two strings of the same length timingSafeEquals goes through
\* every character pair: when it returns it has done as many rounds of the
\* loop as the strings are long, wherever they differ and whether they do.
C22_StepsDependOnLengthOnly ==
  /\ (cmp.pc = "returned" /\ Len(cmp.a) = Len(cmp.b)) =>
       (cmp.steps = Len(cmp.a) /\ cmp.i = Len(cmp.a) + 1)
  /\ cmp.pc = "loop" => cmp.steps = cmp.i - 1

C22_Witness ==
  /\ cmp.pc = "returned"
  /\ Len(cmp.a) = MaxLen /\ Len(cmp.b) = MaxLen
  /\ cmp.a[1] # cmp.b[1]
  /\ cmp.steps = MaxLen

\* The string t is a header value of the response or a string of its body.
Mentions(response, t) ==
  \/ \E h \in DOMAIN response.headers : response.headers[h] = t
  \/ \E f \in DOMAIN response.body \cap {"error", "message", "downloadUrl", "name", "usage"} :
       response.body[f] = t
  \/ /\ "array" \in DOMAIN response.body
     /\ \E i \in DOMAIN response.body.array : response.body.array[i] = t
  \/ /\ "endpoints" \in DOMAIN response.body
     /\ \E e \in DOMAIN response.body.endpoints : response.body.endpoints[e] = t

\* The upstream call and the answer a request logged, and the response the
\* route makes of that answer.
UpstreamCalls(q) == { q.ops[i] : i \in OpsAt(q, "upstream") }
RoutedResponse(q, call) ==
  IF Route(q.path) = "releases" THEN ReleasesResponse(call[3]) ELSE AssetResponse(call[3])

\* C23: GITHUB_TOKEN only goes into the Authorization header of the upstream
\* call; no response carries it in a header or in its body, and the response
\* of a routed request is what the route makes of the upstream answer alone.
C23_TokenNeverEchoed ==
  \A q \in Requests :
    /\ \A call \in UpstreamCalls(q) :
         /\ call[2].headers["Authorization"] = <<"token ", env.GITHUB_TOKEN>>
         /\ q.pc = "done" => q.response = RoutedResponse(q, call)
    /\ q.pc = "done" => \A t \in GitHubTokens : ~Mentions(q.response, t)

C23_Witness ==
  \E q \in Requests :
    /\ q.pc = "done"
    /\ env.GITHUB_TOKEN = "ghp_B"
    /\ \E call \in UpstreamCalls(q) : call[3].status = 302
    /\ q.response.status = 200

\* C24: a request with the correct password for /releases, whose upstream call
\* was answered with a JSON body, is answered 200 with the value of that body
\* as it came and Cache-Control: public, max-age=60, whatever the upstream
\* status and however the body was formatted.
C24_ReleasesPassedThrough ==
  \A q \in Requests :
    (q.pc = "done" /\ q.path = <<"/", "releases">>) =>
      /\ ~WrongOrMissing(q)
      /\ Cardinality(UpstreamCalls(q)) = 1
      /\ \A call \in UpstreamCalls(q) :
           (~call[3].failed /\ call[3].body.valid) =>
             /\ q.response.status = 200
             /\ q.response.body = call[3].body.value
             /\ "Cache-Control" \in DOMAIN q.response.headers
             /\ q.response.headers["Cache-Control"] = "public, max-age=60"

C24_Witness ==
  \E q \in Requests :
    /\ q.pc = "done"
    /\ q.path = <<"/", "releases">>
    /\ \E call \in UpstreamCalls(q) : call[3].body.valid /\ call[3].body.pretty
    /\ q.response.status = 200
    /\ q.response.body = [array |-> <<"v1.0">>]

\* The asset id of a path under /download-url/: what follows the prefix.
AssetIdOf(path) == SubSeq(path, Len(DownloadUrlPrefix) + 1, Len(path))

C25_Step ==
  \A q \in Answered :
    (q.path # NoPath /\ Route(q.path) = "asset") =>
      /\ ~WrongOrMissing(q)
      /\ Cardinality(UpstreamCalls(q)) = 1
      /\ Len(q.ops) > 0 /\ q.ops[Len(q.ops)][1] = "upstream"
      /\ kv' = kv
      /\ \A call \in UpstreamCalls(q) :
           /\ call[2].redirect = "manual"
           /\ call[2].url = <<"https://api.github.com", "/repos/", env.REPO_NAME,
                              "/releases/assets/">> \o AssetIdOf(q.path)
           /\ call[3].status = 302 =>
                /\ q.response.status = 200
                /\ q.response.body = [downloadUrl |-> call[3].location]
                /\ "Cache-Control" \in DOMAIN q.response.headers
                /\ q.response.headers["Cache-Control"] = "no-cache"

\* C25: a request with the correct password under /download-url/ is answered by
\* one upstream call of its own for the asset id, made with redirect "manual" as
\* the last thing the request does, and the step writes nothing to the store;
\* when that call is answered 302 the response is 200 with
\* {downloadUrl: <Location>} and Cache-Control: no-cache.
C25_DownloadUrlResolvedFresh == [][C25_Step]_vars

C25_Witness ==
  \E q \in Requests :
    /\ q.pc = "done"
    /\ q.path = <<"/", "download-url", "/", "123">>
    /\ \E call \in UpstreamCalls(q) : call[3].status = 302 /\ call[2].redirect = "manual"
    /\ q.response.body = [downloadUrl |-> "https://cdn/asset?sig=1"]

\* C26: a request with the correct password under /download-url/ whose upstream
\* call was answered with a status other than 302 is answered 404 with exactly
\* {"error": "Asset not found"}.
C26_AssetNotFound ==
  \A q \in Requests :
    (q.pc = "done" /\ q.path # NoPath /\ Route(q.path) = "asset") =>
      \A call \in UpstreamCalls(q) :
        (~call[3].failed /\ call[3].status # 302) =>
          /\ q.response.status = 404
          /\ q.response.body = [error |-> "Asset not found"]

C26_Witness ==
  \E q \in Requests :
    /\ q.pc = "done"
    /\ q.path # NoPath /\ Route(q.path) = "asset"
    /\ \E call \in UpstreamCalls(q) : ~call[3].failed /\ call[3].status = 200
    /\ q.response.status = 404

\* C27: a request has made an upstream call only if it is not a preflight, its
\* rate-limit check came first and did not block it, and the password
\* comparison came next and succeeded; it makes at most one such call; a
\* request answered as preflight, 429, 401 or with the info document made none,
\* and one answered on /releases or under /download-url/ made exactly one.
C27_UpstreamAfterChecksOnce ==
  \A q \in Requests :
    LET calls == OpsAt(q, "upstream") IN
    /\ Cardinality(calls) <= 1
    /\ \A i \in calls :
         /\ q.method # "OPTIONS"
         /\ ~WrongOrMissing(q)
         /\ q.isValidPassword
         /\ \E c \in OpsAt(q, "compare") : c < i
         /\ env.KV # "unbound" =>
              \E g \in OpsAt(q, "kv.get") : \A c \in OpsAt(q, "compare") : g < c
    /\ q.pc = "done" =>
         Cardinality(calls) =
           IF q.path # NoPath /\ Route(q.path) \in {"releases", "asset"} THEN 1 ELSE 0
    /\ (q.pc = "done" /\ (q.method = "OPTIONS" \/ q.response.status \in {401, 429}))
         => q.path = NoPath

C27_Witness ==
  \E q \in Requests :
    /\ q.pc = "done"
    /\ q.path = <<"/", "releases">>
    /\ HasOp(q, "kv.get") /\ HasOp(q, "compare")
    /\ Cardinality(OpsAt(q, "upstream")) = 1
    /\ kv[RateLimitKey(q.clientIP)].present = FALSE

\* C28: every response carries Access-Control-Allow-Origin: *, and every
\* response but the one to OPTIONS carries Content-Type: application/json,
\* whether the request succeeded or failed and whatever the upstream call did.
C28_EveryResponseHasCORS ==
  \A q \in Requests :
    q.pc = "done" =>
      /\ "Access-Control-Allow-Origin" \in DOMAIN q.response.headers
      /\ q.response.headers["Access-Control-Allow-Origin"] = "*"
      /\ q.method # "OPTIONS" =>
           /\ "Content-Type" \in DOMAIN q.response.headers
           /\ q.response.headers["Content-Type"] = "application/json"

\* A request the caller sees fail: an error status, an upstream call that did
\* not come back, or an upstream error status on /releases.
Failure(q) ==
  \/ q.response.status >= 400
  \/ \E call \in UpstreamCalls(q) :
       \/ call[3].failed
       \/ Route(q.path) = "releases" /\ call[3].status >= 400

\* C29: the response of every failed request has a status that is no success
\* and a body that is an object with an error field; a 429 also has a numeric
\* retryAfter; no failure is answered by an exception that left fetch.
C29_FailuresAreErrorObjects ==
  \A q \in Requests :
    (q.pc = "done" /\ Failure(q)) =>
      /\ q.response # UncaughtResponse
      /\ q.response.status >= 400
      /\ "error" \in DOMAIN q.response.body
      /\ q.response.status = 429 =>
           "retryAfter" \in DOMAIN q.response.body /\ q.response.body.retryAfter \in Nat

\* C30: a path is matched only once the password has been accepted; a request
\* for exactly /releases makes the call that lists the releases, a request
\* whose path starts with /download-url/ makes the call for an asset, and a
\* request for any other path, / included, makes no upstream call and is
\* answered 200 with the info document that describes the two endpoints.
C30_ThreeRoutes ==
  \A q \in Requests :
    (q.pc = "done" /\ q.path # NoPath) =>
      LET calls == UpstreamCalls(q)
          underDownloadUrl == /\ Len(q.path) >= 3
                              /\ SubSeq(q.path, 1, 3) = <<"/", "download-url", "/">>
      IN /\ q.isValidPassword
         /\ IF q.path = <<"/", "releases">>
            THEN /\ calls # {}
                 /\ \A call \in calls :
                      call[2].url = <<"https://api.github.com", "/repos/", env.REPO_NAME, "/releases">>
            ELSE IF underDownloadUrl
            THEN /\ calls # {}
                 /\ \A call \in calls :
                      /\ Len(call[2].url) >= 4
                      /\ SubSeq(call[2].url, 1, 4) =
                           <<"https://api.github.com", "/repos/", env.REPO_NAME, "/releases/assets/">>
            ELSE /\ calls = {}
                 /\ q.response.status = 200
                 /\ q.response.body =
                      [ name |-> "GitHub Release Proxy",
                        endpoints |-> ( "/releases" :> "List all releases" @@
                                        "/download-url/:assetId" :> "Get download URL for an asset" ),
                        usage |-> "Add X-Password header with your password" ]

C30_Witness ==
  \E q \in Requests :
    /\ q.pc = "done"
    /\ q.path = <<"/", "releases", "/">>
    /\ q.response.status = 200
    /\ "endpoints" \in DOMAIN q.response.body
    /\ ~HasOp(q, "upstream")

\* The identity headers in the order the claim gives, and those that are present.
InOrder(h) == <<h.cf, h.xff, h.xreal>>
PresentIn(h) == { i \in 1..3 : InOrder(h)[i] # NULL /\ InOrder(h)[i] # "" }

C31_Step ==
  \A q \in JustChecked :
    /\ IF PresentIn(seen') = {}
       THEN q.clientIP = "unknown"
       ELSE \E i \in PresentIn(seen') :
              /\ \A j \in PresentIn(seen') : i <= j
              /\ q.clientIP = InOrder(seen')[i]
    /\ q.response.status = 429 <=> kv[<<"ratelimit:", q.clientIP>>].present

\* C31: the identity of a request is the value of the first of CF-Connecting-IP,
\* X-Forwarded-For, X-Real-IP that is present and not empty, and 'unknown' when
\* none is; the record consulted for the request is the one of that identity,
\* so requests without these headers meet in the record of 'unknown'.
C31_FirstPresentHeader == [][C31_Step]_vars

C31_Witness ==
  \E q \in Requests :
    /\ q.pc = "done"
    /\ seen = [cf |-> NULL, xff |-> NULL, xreal |-> NULL]
    /\ q.clientIP = "unknown"
    /\ q.response.status = 429

\* Somebody is logged in: the page holds a password.
LoggedIn == app.password # NoPassword
SessionTimers == { timer \in timers : timer.kind \in {"session", "warning"} }

C32_Armed ==
  IF LoggedIn
  THEN /\ app.tracking
       /\ app.stored = app.password
       /\ app.lastActivity # <<>>
       /\ LET last == parseInt(app.lastActivity)
          IN /\ clock <= last + 30 * 60 * 1000
             /\ app.sessionTimeoutId = [kind |-> "session", due |-> last + 30 * 60 * 1000]
             /\ app.warningTimeoutId = [kind |-> "warning", due |-> last + 25 * 60 * 1000]
             /\ app.sessionTimeoutId \in timers
             /\ SessionTimers \subseteq {app.sessionTimeoutId, app.warningTimeoutId}
             /\ clock < last + 25 * 60 * 1000 => app.warningTimeoutId \in timers
  ELSE /\ app.stored = <<>>
       /\ SessionTimers = {}

C32_Restart ==
  Activity =>
    IF LoggedIn
    THEN /\ SessionTimers' = { [kind |-> "session", due |-> clock + 30 * 60 * 1000],
                               [kind |-> "warning", due |-> clock + 25 * 60 * 1000] }
         /\ app'.password = app.password
    ELSE UNCHANGED <<app, timers>>

\* C32: while somebody is logged in the activity listeners are on and an
\* activity event sets the session timer to 30 minutes and the warning timer to
\* 25 minutes from now, replacing the timers there were; nobody stays logged
\* in more than 30 minutes after the last such restart; once logged out, the
\* password is gone from memory and from sessionStorage, no session or warning
\* timer is pending, and activity arms none.
C32_SessionTimeout == []C32_Armed /\ [][C32_Restart]_vars

C32_Witness ==
  /\ ~LoggedIn
  /\ clock = 35 * 60 * 1000
  /\ app.error = <<"Session expired due to inactivity. Please log in again.">>
  /\ app.loginBox = "block"

\* The fetch calls the page consumed in this step (at most one).
Consumed == { c \in BagToSet(fetches) : CopiesIn(c, fetches') < CopiesIn(c, fetches) }
\* The minutes of a retryAfter in seconds, rounded up, in digits.
Minutes(seconds) == toString((seconds + 59) \div 60)

C33_Step ==
  \A c \in Consumed :
    (c.kind = "login" /\ ~c.reply.rejected /\ ~(c.reply.response.status \in 200..299)) =>
      LET response == c.reply.response IN
      /\ app'.password = app.password
      /\ app'.loginBox = "block"
      /\ IF response.status = 429
         THEN app'.error = <<response.body.error, " (try again in ">>
                             \o Minutes(response.body.retryAfter) \o <<" minutes)">>
         ELSE IF response.status = 401
         THEN Len(app'.error) = 1
              /\ app'.error[1] \in {"Invalid password", "Invalid password. Please try again."}
         ELSE app'.error = <<"Server error: ">> \o toString(response.status)

\* C33: a login answered with a status that is not ok leaves the user logged
\* out and shows, for 429, the server's error with the retry time in minutes,
\* for 401, an invalid-password message, and for any other status, a server
\* error with the status code.
C33_LoginErrorsDistinguished == [][C33_Step]_vars

\* The fetch calls the service worker answered in this step (at most one).
SwAnswered ==
  { c \in BagToSet(fetches') : c.pc = "answered" /\ CopiesIn(c, fetches') > CopiesIn(c, fetches) }
\* The age of a cached download URL, from the timestamp it was stored with.
AgeOf(entry) == clock - parseInt(entry.response.headers["sw-cache-timestamp"])

C34_Step ==
  \A c \in SwAnswered :
    LET entry == cache[c.url] IN
    IF ~c.network.rejected
    THEN /\ c.reply = c.network
         /\ IF c.network.response.status \in 200..299
            THEN /\ cache'[c.url].present
                 /\ cache'[c.url].response.status = c.network.response.status
                 /\ cache'[c.url].response.body = c.network.response.body
                 /\ c.kind = "download" =>
                      cache'[c.url].response.headers["sw-cache-timestamp"] = toString(clock)
                 /\ \A u \in DOMAIN cache \ {c.url} : cache'[u] = cache[u]
            ELSE cache' = cache
    ELSE /\ cache' = cache
         /\ IF ~entry.present THEN c.reply.rejected
            ELSE IF c.kind = "download" /\ AgeOf(entry) > 5 * 60 * 1000
            THEN /\ ~c.reply.rejected
                 /\ c.reply.response.status = 410
                 /\ c.reply.response.body = [error |-> "Download URL expired"]
            ELSE c.reply = [rejected |-> FALSE, response |-> entry.response]

C34_OnlyOkCached ==
  \A u \in DOMAIN cache : cache[u].present => cache[u].response.status \in 200..299

\* C34: a call whose network fetch succeeds is answered with the network's
\* response, which is put in the cache when it is ok and leaves the cache as it
\* was when it is not; a call whose network fetch fails is answered from the
\* cache, a /download-url/ entry only while it is at most 5 minutes old and
\* with 410 {error: 'Download URL expired'} once it is older.
C34_NetworkFirst == []C34_OnlyOkCached /\ [][C34_Step]_vars

C34_Witness ==
  /\ \E c \in BagToSet(fetches) :
       /\ c.pc = "answered" /\ c.kind = "download"
       /\ c.network.rejected
       /\ ~c.reply.rejected /\ c.reply.response.status = 200
       /\ clock - parseInt(c.reply.response.headers["sw-cache-timestamp"]) = 5 * 60 * 1000

\* The store with every record but one identity's removed.
OnlyRecordOf(ip) ==
  [k \in DOMAIN kv |-> IF k = <<"ratelimit:", ip>> THEN kv[k] ELSE [present |-> FALSE]]

C35_Step ==
  \A q \in Moved :
    LET own == <<"ratelimit:", q.clientIP>> IN
    /\ \A k \in DOMAIN kv : kv'[k] # kv[k] => k = own
    /\ q \in JustChecked =>
         /\ own \in DOMAIN kv
         /\ q.response.status = 429 <=> (kv[own].present /\ now < kv[own].value.resetAt)
         /\ q.response.status = 429 <=>
              checkRateLimit(env, OnlyRecordOf(q.clientIP), q.clientIP, now, TRUE).isBlocked
    /\ q.pc = "update" =>
         /\ own \in DOMAIN kv
         /\ q.currentAttempts = IF kv[own].present THEN kv[own].value.attempts ELSE 0

\* C35: a step of a request changes no record but the one keyed by the
\* request's own identity; whether the request is answered 429, and the
\* attempts it reads, are what that record alone says, so the failures and
\* successes of another identity neither block nor unblock it.
C35_IsolatedPerIdentity == [][C35_Step]_vars

C35_Witness ==
  /\ kv[<<"ratelimit:", "10.0.0.1">>].present
  /\ ~kv[<<"ratelimit:", "unknown">>].present
  /\ \E q \in Requests :
       q.pc = "done" /\ q.clientIP = "unknown" /\ q.response.status = 200
  /\ \E q \in Requests :
       q.pc = "done" /\ q.clientIP = "10.0.0.1" /\ q.response.status = 429

\* What the plain worker does with the request q was, for a pathname and an
\* upstream answer.
UpstreamOps(q) == SelectSeq(q.ops, LAMBDA op : op[1] = "upstream")
PathsOf(q) == IF q.path = NoPath THEN Paths ELSE {q.path}
SameAsPlain(q, pathname, answer) ==
  plainFetch(q.method, q.password, pathname, answer, env)
    = [response |-> q.response, calls |-> UpstreamOps(q)]

\* C36: without a store, and with a secret that is not empty, every request is
\* answered by the rate-limiting worker with the status, headers and body the
\* plain worker gives for the same method, X-Password, path and upstream
\* answer, after the same upstream calls; and no store operation is made.
C36_SameAsPlainWorker ==
  (env.KV = "unbound" /\ env.VIEWER_PASSWORD # <<>>) =>
    \A q \in Requests :
      q.pc = "done" =>
        /\ \A pathname \in PathsOf(q) :
             IF UpstreamOps(q) # <<>>
             THEN SameAsPlain(q, pathname, UpstreamOps(q)[1][3])
             ELSE /\ \A answer \in ReleaseAnswers : SameAsPlain(q, pathname, answer)
                  /\ \A answer \in AssetAnswers : SameAsPlain(q, pathname, answer)
        /\ \A i \in 1..Len(q.ops) : q.ops[i][1] \notin {"kv.get", "kv.put", "kv.delete"}

C36_Witness ==
  /\ env.KV = "unbound"
  /\ \E q \in Requests :
       /\ q.pc = "done"
       /\ q.password = [present |-> TRUE, value |-> <<>>]
       /\ q.response.status = 401
       /\ plainFetch(q.method, q.password, <<"/">>, FetchFailed, env).response.status = 401

\* The puts and deletes a request made, in order.
Writes(q) == SelectSeq(q.ops, LAMBDA op : op[1] \in {"kv.put", "kv.delete"})
\* Whether the store read of checkRateLimit went through.
CheckRead(q) == q.ops # <<>> /\ q.ops[1][1] = "kv.get" /\ q.ops[1][2] # "throw"
WriteWent(q) == Writes(q) # <<>> /\ Writes(q)[1][2] # "throw"

\* One step of the refactored worker against the inline worker on the same
\* store, time, request and store outcomes: the same 429 or none after the
\* check, and the same response, store and writes after the failure path and
\* after the reset.
C37_Step ==
  \A q \in Requests, r \in Requests' :
    /\ (q.pc = "start" /\ r.pc # "start") =>
         LET in == inlineFetch(env, kv, r.clientIP, r.password, now, CheckRead(r), TRUE)
         IN IF r.pc = "done" THEN r.response = in.response /\ Writes(r) = in.writes
            ELSE in.response.status # 429 /\ (in.passed <=> r.pc = "reset")
    /\ (q.pc = "update" /\ r.pc = "done") =>
         LET in == inlineFetch(env, kv, q.clientIP, q.password, now, CheckRead(q), WriteWent(r))
         IN r.response = in.response /\ kv' = in.store /\ Writes(r) = in.writes
    /\ (q.pc = "reset" /\ r.pc # "reset") =>
         LET in == inlineFetch(env, kv, q.clientIP, q.password, now, CheckRead(q), WriteWent(r))
         IN in.passed /\ kv' = in.store /\ Writes(r) = in.writes

\* C37: for requests handled one after the other, the refactored worker and the
\* inline worker give the same response, leave the same store and make the same
\* puts and deletes, also when single store operations throw.
C37_SameAsInlineWorker == [][C37_Step]_vars

\* The same while every store operation goes through.
C37_SameWhileStoreAnswers == [][env.KV = "healthy" => C37_Step]_vars

\* C38: while nobody is logged in (before the first login, and from logout to
\* the next successful login) the releases container is empty and inactive,
\* whatever arrives for a loadReleases that was still in flight.
C38_NothingShownAfterLogout == ~LoggedIn => app.releases = NothingShown

\* C39: the password in sessionStorage was accepted by the worker: whenever a
\* login stores a password and shows the logged-in view, the network answered
\* that very request, and with a 2xx to that password.
C39_Step ==
  \A c \in Consumed :
    (c.kind = "login" /\ app'.stored # app.stored) =>
      /\ app'.stored = c.password
      /\ ~c.network.rejected
      /\ ok(c.network.response)
      /\ c.password \in ViewerPasswords

C39_OnlyValidatedPasswordStored == [][C39_Step]_vars

====
